---- MODULE Spec2Model ----
(***************************************************************************)
(* School-details harvest pipeline of schools-be:                          *)
(*   scraper.SchoolDetailsScraper   (cache, harvest loop)                  *)
(*   scraper.Normalize*Table        (field normalizer)                     *)
(*   repository.SchoolDetailRepository / SchoolStatisticsRepository        *)
(*   service.SchoolDetailService    (ScrapeAndStoreDetails)                *)
(*                                                                         *)
(* A Go string is a sequence of symbols.  A symbol is one character, or a  *)
(* run of characters that no operation of the code looks into (a word).    *)
(***************************************************************************)
EXTENDS Integers, Sequences, FiniteSets, TLC

\* ------------------------------------------------------------------ bounds
MaxLinks ==
    2

\* The direct repository calls of one behaviour
MaxCalls ==
    3

\* The latest time.Now() of the direct repository calls
MaxClock ==
    1

\* ------------------------------------------------------- strings (package strings)
Space ==
    " "

RECURSIVE TrimLeft(_)
TrimLeft(s) ==
    IF s # <<>> /\ Head(s) = Space THEN TrimLeft(Tail(s)) ELSE s

RECURSIVE TrimRight(_)
TrimRight(s) ==
    IF s # <<>> /\ s[Len(s)] = Space THEN TrimRight(SubSeq(s, 1, Len(s) - 1)) ELSE s

TrimSpace(s) ==
    TrimRight(TrimLeft(s))

HasPrefix(s, p) ==
    Len(s) >= Len(p) /\ SubSeq(s, 1, Len(p)) = p

RECURSIVE Contains(_, _)
Contains(s, sub) ==
    IF HasPrefix(s, sub) THEN TRUE
    ELSE IF s = <<>> THEN FALSE
    ELSE Contains(Tail(s), sub)

\* strings.ReplaceAll(s, old, "") for a one-symbol old
Remove(s, old) ==
    SelectSeq(s, LAMBDA c : c # old)

\* strings.ReplaceAll(s, old, new) for one-symbol old and new
Replace(s, old, new) ==
    [k \in 1..Len(s) |-> IF s[k] = old THEN new ELSE s[k]]

\* strings.Split(s, sep), sep non-empty: the pieces between the occurrences of sep
RECURSIVE SplitFrom(_, _, _)
SplitFrom(s, sep, cur) ==
    IF s = <<>> THEN <<cur>>
    ELSE IF HasPrefix(s, sep)
         THEN <<cur>> \o SplitFrom(SubSeq(s, Len(sep) + 1, Len(s)), sep, <<>>)
         ELSE SplitFrom(Tail(s), sep, Append(cur, Head(s)))

Split(s, sep) ==
    SplitFrom(s, sep, <<>>)

RECURSIVE Join(_, _)
Join(parts, sep) ==
    IF parts = <<>> THEN <<>>
    ELSE IF Len(parts) = 1 THEN parts[1]
    ELSE parts[1] \o sep \o Join(Tail(parts), sep)

Digits ==
    <<"0", "1", "2", "3", "4", "5", "6", "7", "8", "9">>

IsDigit(c) ==
    \E d \in 1..10 : Digits[d] = c

DigitVal(c) ==
    (CHOOSE d \in 1..10 : Digits[d] = c) - 1

AllDigits(s) ==
    s # <<>> /\ \A k \in 1..Len(s) : IsDigit(s[k])

RECURSIVE DecVal(_)
DecVal(s) ==
    IF s = <<>> THEN 0 ELSE 10 * DecVal(SubSeq(s, 1, Len(s) - 1)) + DigitVal(s[Len(s)])

\* strings.ToLower on the letters the modelled labels use
ToLower(s) ==
    [k \in 1..Len(s) |->
        CASE s[k] = "S" -> "s"
          [] s[k] = "R" -> "r"
          [] s[k] = "B" -> "b"
          [] OTHER -> s[k]]

\* ------------------------------------------------------- models (package models)
\* A nil *StatisticTable, a nil *SchoolLanguageStat, a nil *SchoolAbsenceStat.
Nil ==
    [nil |-> TRUE]

\* models.StatisticTable (Data is never set by the harvester)
StatisticTable(headers, rows) ==
    [Headers |-> headers, Rows |-> rows]

\* ------------------------------------------------------- field normalizer
\* strconv.Atoi on the cleaned string: digits with an optional sign, else an error (0)
Atoi(s) ==
    IF AllDigits(s) THEN DecVal(s)
    ELSE IF s # <<>> /\ Head(s) = "-" /\ AllDigits(Tail(s)) THEN 0 - DecVal(Tail(s))
    ELSE IF s # <<>> /\ Head(s) = "+" /\ AllDigits(Tail(s)) THEN DecVal(Tail(s))
    ELSE 0

parseInt(s) ==
    LET c == Remove(Remove(Remove(Remove(TrimSpace(s), Space), "%"), "."), ",")
    IN  IF c = <<>> THEN 0 ELSE Atoi(c)

\* A float64 of the decimal form d+[.d+] is kept as mantissa and number of decimals,
\* trailing zero decimals dropped (45.60 = 45.6).
RECURSIVE Float(_, _)
Float(mant, dec) ==
    IF dec > 0 /\ mant % 10 = 0 THEN Float(mant \div 10, dec - 1)
    ELSE [mant |-> mant, dec |-> dec]

\* strconv.ParseFloat on the cleaned string: unsigned decimal forms, anything else
\* the modelled inputs hold is a syntax error (0.0)
ParseFloat(s) ==
    LET parts == Split(s, <<".">>)
    IN  IF Len(parts) = 1 /\ AllDigits(parts[1]) THEN Float(DecVal(parts[1]), 0)
        ELSE IF Len(parts) = 2 /\ AllDigits(parts[1]) /\ AllDigits(parts[2])
             THEN Float(DecVal(parts[1] \o parts[2]), Len(parts[2]))
        ELSE IF Len(parts) = 2 /\ AllDigits(parts[1]) /\ parts[2] = <<>>
             THEN Float(DecVal(parts[1]), 0)
        ELSE IF Len(parts) = 2 /\ parts[1] = <<>> /\ AllDigits(parts[2])
             THEN Float(DecVal(parts[2]), Len(parts[2]))
        ELSE Float(0, 0)

parseFloat(s) ==
    LET c == Replace(Remove(Remove(TrimSpace(s), Space), "%"), ",", ".")
    IN  IF c = <<>> THEN Float(0, 0) ELSE ParseFloat(c)

RECURSIVE CitizenshipRows(_, _, _)
CitizenshipRows(schoolNumber, rows, scrapedAt) ==
    IF rows = <<>> THEN <<>>
    ELSE LET row == Head(rows)
             rest == CitizenshipRows(schoolNumber, Tail(rows), scrapedAt)
         IN  IF Len(row) < 4 THEN rest
             ELSE IF TrimSpace(row[1]) = <<>> THEN rest
             ELSE << [SchoolNumber |-> schoolNumber,
                      Citizenship |-> TrimSpace(row[1]),
                      FemaleStudents |-> parseInt(row[2]),
                      MaleStudents |-> parseInt(row[3]),
                      Total |-> parseInt(row[4]),
                      ScrapedAt |-> scrapedAt] >> \o rest

NormalizeCitizenshipTable(schoolNumber, table, scrapedAt) ==
    IF table = Nil THEN <<>>
    ELSE IF Len(table.Rows) = 0 THEN <<>>
    ELSE CitizenshipRows(schoolNumber, table.Rows, scrapedAt)

\* A NormalizeLanguageTable that takes the first row as the data row
NormalizeLanguageFirstRow(schoolNumber, table, scrapedAt) ==
    IF table = Nil THEN Nil
    ELSE IF Len(table.Rows) < 2 THEN Nil
    ELSE LET dataRow == table.Rows[1]
         IN  IF Len(dataRow) < 5 THEN Nil
             ELSE [SchoolNumber |-> schoolNumber,
                   TotalStudents |-> parseInt(dataRow[1]),
                   NDHFemaleStudents |-> parseInt(dataRow[2]),
                   NDHMaleStudents |-> parseInt(dataRow[3]),
                   NDHTotal |-> parseInt(dataRow[4]),
                   NDHPercentage |-> parseFloat(dataRow[5]),
                   ScrapedAt |-> scrapedAt]

NormalizeLanguageTable(schoolNumber, table, scrapedAt) ==
    IF table = Nil THEN Nil
    ELSE IF Len(table.Rows) < 2 THEN Nil
    ELSE LET dataRow == table.Rows[Len(table.Rows)]
         IN  IF Len(dataRow) < 5 THEN Nil
             ELSE [SchoolNumber |-> schoolNumber,
                   TotalStudents |-> parseInt(dataRow[1]),
                   NDHFemaleStudents |-> parseInt(dataRow[2]),
                   NDHMaleStudents |-> parseInt(dataRow[3]),
                   NDHTotal |-> parseInt(dataRow[4]),
                   NDHPercentage |-> parseFloat(dataRow[5]),
                   ScrapedAt |-> scrapedAt]

Insgesamt ==
    <<"Insgesamt">>

RECURSIVE ResidenceRows(_, _, _)
ResidenceRows(schoolNumber, rows, scrapedAt) ==
    IF rows = <<>> THEN <<>>
    ELSE LET row == Head(rows)
             rest == ResidenceRows(schoolNumber, Tail(rows), scrapedAt)
         IN  IF Len(row) < 2 THEN rest
             ELSE IF TrimSpace(row[1]) = <<>> \/ TrimSpace(row[1]) = Insgesamt THEN rest
             ELSE << [SchoolNumber |-> schoolNumber,
                      District |-> TrimSpace(row[1]),
                      StudentCount |-> parseInt(row[2]),
                      ScrapedAt |-> scrapedAt] >> \o rest

NormalizeResidenceTable(schoolNumber, table, scrapedAt) ==
    IF table = Nil THEN <<>>
    ELSE IF Len(table.Rows) = 0 THEN <<>>
    ELSE ResidenceRows(schoolNumber, table.Rows, scrapedAt)

\* A switch that falls through: every case whose condition holds is executed
AbsenceRowEveryMatch(stat, row) ==
    IF Len(row) < 3 THEN stat
    ELSE LET label == TrimSpace(ToLower(row[1]))
             totalRate == parseFloat(row[2])
             unexcusedRate == parseFloat(row[3])
             schule == <<"s", "c", "h", "u", "l", "e">>
             schulart == <<"s", "c", "h", "u", "l", "a", "r", "t">>
             region == <<"r", "e", "g", "i", "o", "n">>
             berlin == <<"b", "e", "r", "l", "i", "n">>
             s1 == IF Contains(label, schule) /\ ~Contains(label, schulart)
                   THEN [stat EXCEPT !.SchoolAbsenceRate = totalRate,
                                     !.SchoolUnexcusedRate = unexcusedRate]
                   ELSE stat
             s2 == IF Contains(label, schulart)
                   THEN [s1 EXCEPT !.SchoolTypeAbsenceRate = totalRate,
                                   !.SchoolTypeUnexcusedRate = unexcusedRate]
                   ELSE s1
             s3 == IF Contains(label, region)
                   THEN [s2 EXCEPT !.RegionAbsenceRate = totalRate,
                                   !.RegionUnexcusedRate = unexcusedRate]
                   ELSE s2
         IN  IF Contains(label, berlin)
             THEN [s3 EXCEPT !.BerlinAbsenceRate = totalRate,
                             !.BerlinUnexcusedRate = unexcusedRate]
             ELSE s3

\* The switch of NormalizeAbsenceTable on one row: the first matching case wins.
AbsenceRow(stat, row) ==
    IF Len(row) < 3 THEN stat
    ELSE LET label == TrimSpace(ToLower(row[1]))
             totalRate == parseFloat(row[2])
             unexcusedRate == parseFloat(row[3])
             schule == <<"s", "c", "h", "u", "l", "e">>
             schulart == <<"s", "c", "h", "u", "l", "a", "r", "t">>
             region == <<"r", "e", "g", "i", "o", "n">>
             berlin == <<"b", "e", "r", "l", "i", "n">>
         IN  IF Contains(label, schule) /\ ~Contains(label, schulart)
             THEN [stat EXCEPT !.SchoolAbsenceRate = totalRate,
                               !.SchoolUnexcusedRate = unexcusedRate]
             ELSE IF Contains(label, schulart)
             THEN [stat EXCEPT !.SchoolTypeAbsenceRate = totalRate,
                               !.SchoolTypeUnexcusedRate = unexcusedRate]
             ELSE IF Contains(label, region)
             THEN [stat EXCEPT !.RegionAbsenceRate = totalRate,
                               !.RegionUnexcusedRate = unexcusedRate]
             ELSE IF Contains(label, berlin)
             THEN [stat EXCEPT !.BerlinAbsenceRate = totalRate,
                               !.BerlinUnexcusedRate = unexcusedRate]
             ELSE stat

RECURSIVE AbsenceRows(_, _)
AbsenceRows(stat, rows) ==
    IF rows = <<>> THEN stat ELSE AbsenceRows(AbsenceRow(stat, Head(rows)), Tail(rows))

NormalizeAbsenceTable(schoolNumber, table, scrapedAt) ==
    IF table = Nil THEN Nil
    ELSE IF Len(table.Rows) < 4 THEN Nil
    ELSE AbsenceRows([SchoolNumber |-> schoolNumber,
                      SchoolAbsenceRate |-> Float(0, 0),
                      SchoolUnexcusedRate |-> Float(0, 0),
                      SchoolTypeAbsenceRate |-> Float(0, 0),
                      SchoolTypeUnexcusedRate |-> Float(0, 0),
                      RegionAbsenceRate |-> Float(0, 0),
                      RegionUnexcusedRate |-> Float(0, 0),
                      BerlinAbsenceRate |-> Float(0, 0),
                      BerlinUnexcusedRate |-> Float(0, 0),
                      ScrapedAt |-> scrapedAt], table.Rows)

\* ------------------------------------------------------- relational store
\* The store: one set of rows per table.  The surrogate id column is left out; the
\* UNIQUE constraints of the schema are enforced by the statements below.
EmptyDB ==
    [school_details |-> {}, school_citizenship_stats |-> {}, school_language_stats |-> {},
     school_residence_stats |-> {}, school_absence_stats |-> {}]

\* A database fault: statement number `at` of the current persistence pass of one
\* record fails (0: none).
NoFault ==
    [at |-> 0]

\* The state threaded through the statements of one persistence pass: the store, the
\* statements executed so far, the fault, whether ctx is done, time.Now(), the error
\* of the last call, whether a statistics warning was logged.
Session(store, fault, done, now) ==
    [db |-> store, n |-> 0, fault |-> fault, done |-> done, now |-> now,
     err |-> FALSE, warned |-> FALSE]

\* db.ExecContext(ctx, ...) returns an error: ctx is done, or the statement faults
Fails(st) ==
    \/ st.done
    \/ st.fault.at = st.n + 1

Failed(st) ==
    [st EXCEPT !.n = @ + 1, !.err = TRUE]

\* DELETE FROM t, the WHERE clause left out
ExecDeleteAll(st, t, schoolNumber) ==
    IF Fails(st) THEN Failed(st)
    ELSE [st EXCEPT !.n = @ + 1, !.err = FALSE, !.db[t] = {}]

\* DELETE FROM t WHERE school_number = ?
ExecDelete(st, t, schoolNumber) ==
    IF Fails(st) THEN Failed(st)
    ELSE [st EXCEPT !.n = @ + 1, !.err = FALSE,
                    !.db[t] = {r \in @ : r.school_number # schoolNumber}]

\* An INSERT INTO a table without its UNIQUE constraint
ExecInsertNoKey(st, t, row, conflict) ==
    IF Fails(st) THEN Failed(st)
    ELSE [st EXCEPT !.n = @ + 1, !.err = FALSE, !.db[t] = @ \cup {row}]

\* INSERT INTO t ...; conflict: a row of t has the new row's UNIQUE key
ExecInsert(st, t, row, conflict) ==
    IF Fails(st) \/ conflict THEN Failed(st)
    ELSE [st EXCEPT !.n = @ + 1, !.err = FALSE, !.db[t] = @ \cup {row}]

\* INSERT OR REPLACE INTO t ... (school_number UNIQUE)
ExecInsertOrReplace(st, t, row) ==
    IF Fails(st) THEN Failed(st)
    ELSE [st EXCEPT !.n = @ + 1, !.err = FALSE,
                    !.db[t] = {r \in @ : r.school_number # row.school_number} \cup {row}]

\* SchoolDetailRepository.tableToJSON
tableToJSON(table) ==
    IF table = Nil THEN [json |-> "{}"]
    ELSE [headers |-> table.Headers, rows |-> table.Rows]

\* The VALUES list of Create/Upsert
DetailRow(detail, now) ==
    [school_number |-> detail.SchoolNumber,
     school_name |-> detail.SchoolName,
     languages |-> detail.Languages,
     courses |-> detail.Courses,
     offerings |-> detail.Offerings,
     available_after_4th_grade |-> detail.AvailableAfter4thGrade,
     additional_info |-> detail.AdditionalInfo,
     equipment |-> detail.Equipment,
     working_groups |-> detail.WorkingGroups,
     partners |-> detail.Partners,
     differentiation |-> detail.Differentiation,
     lunch_info |-> detail.LunchInfo,
     dual_learning |-> detail.DualLearning,
     citizenship_data |-> tableToJSON(detail.CitizenshipTable),
     language_data |-> tableToJSON(detail.LanguageTable),
     residence_data |-> tableToJSON(detail.ResidenceTable),
     absence_data |-> tableToJSON(detail.AbsenceTable),
     scraped_at |-> detail.ScrapedAt,
     created_at |-> now,
     updated_at |-> now]

\* An ON CONFLICT clause whose SET list leaves school_name out
ConflictKeepName(old, excluded) ==
    [excluded EXCEPT !.created_at = old.created_at, !.school_name = old.school_name]

\* ON CONFLICT(school_number) DO UPDATE SET ...: every column of the excluded row
\* but created_at
ConflictUpdate(old, excluded) ==
    [excluded EXCEPT !.created_at = old.created_at]

\* An INSERT INTO school_details without the ON CONFLICT clause, school_number not
\* UNIQUE
UpsertRowsAppend(rows, new) ==
    rows \cup {new}

\* INSERT INTO school_details ... ON CONFLICT(school_number) DO UPDATE
UpsertRows(rows, new) ==
    IF \E r \in rows : r.school_number = new.school_number
    THEN {IF r.school_number = new.school_number THEN ConflictUpdate(r, new) ELSE r : r \in rows}
    ELSE rows \cup {new}

\* SchoolDetailRepository.Upsert
Upsert(st, detail) ==
    IF Fails(st) THEN Failed(st)
    ELSE [st EXCEPT !.n = @ + 1, !.err = FALSE,
                    !.db.school_details = UpsertRows(@, DetailRow(detail, st.now))]

CitizenshipRow(stat, now) ==
    [school_number |-> stat.SchoolNumber, citizenship |-> stat.Citizenship,
     female_students |-> stat.FemaleStudents, male_students |-> stat.MaleStudents,
     total |-> stat.Total, scraped_at |-> stat.ScrapedAt, created_at |-> now]

RECURSIVE InsertCitizenshipStats(_, _)
InsertCitizenshipStats(st, stats) ==
    IF stats = <<>> THEN [st EXCEPT !.err = FALSE]
    ELSE LET row == CitizenshipRow(Head(stats), st.now)
             conflict == \E r \in st.db.school_citizenship_stats :
                            /\ r.school_number = row.school_number
                            /\ r.citizenship = row.citizenship
             next == ExecInsert(st, "school_citizenship_stats", row, conflict)
         IN  IF next.err THEN next ELSE InsertCitizenshipStats(next, Tail(stats))

\* SchoolStatisticsRepository.SaveCitizenshipStats
SaveCitizenshipStats(st, stats) ==
    IF Len(stats) = 0 THEN [st EXCEPT !.err = FALSE]
    ELSE LET deleted == ExecDelete(st, "school_citizenship_stats", stats[1].SchoolNumber)
         IN  IF deleted.err THEN deleted ELSE InsertCitizenshipStats(deleted, stats)

LanguageRow(stat, now) ==
    [school_number |-> stat.SchoolNumber, total_students |-> stat.TotalStudents,
     ndh_female_students |-> stat.NDHFemaleStudents,
     ndh_male_students |-> stat.NDHMaleStudents, ndh_total |-> stat.NDHTotal,
     ndh_percentage |-> stat.NDHPercentage, scraped_at |-> stat.ScrapedAt,
     created_at |-> now]

\* SchoolStatisticsRepository.SaveLanguageStat
SaveLanguageStat(st, stat) ==
    ExecInsertOrReplace(st, "school_language_stats", LanguageRow(stat, st.now))

ResidenceRow(stat, now) ==
    [school_number |-> stat.SchoolNumber, district |-> stat.District,
     student_count |-> stat.StudentCount, scraped_at |-> stat.ScrapedAt,
     created_at |-> now]

RECURSIVE InsertResidenceStats(_, _)
InsertResidenceStats(st, stats) ==
    IF stats = <<>> THEN [st EXCEPT !.err = FALSE]
    ELSE LET row == ResidenceRow(Head(stats), st.now)
             conflict == \E r \in st.db.school_residence_stats :
                            /\ r.school_number = row.school_number
                            /\ r.district = row.district
             next == ExecInsert(st, "school_residence_stats", row, conflict)
         IN  IF next.err THEN next ELSE InsertResidenceStats(next, Tail(stats))

\* SchoolStatisticsRepository.SaveResidenceStats
SaveResidenceStats(st, stats) ==
    IF Len(stats) = 0 THEN [st EXCEPT !.err = FALSE]
    ELSE LET deleted == ExecDelete(st, "school_residence_stats", stats[1].SchoolNumber)
         IN  IF deleted.err THEN deleted ELSE InsertResidenceStats(deleted, stats)

AbsenceStatRow(stat, now) ==
    [school_number |-> stat.SchoolNumber,
     school_absence_rate |-> stat.SchoolAbsenceRate,
     school_unexcused_rate |-> stat.SchoolUnexcusedRate,
     school_type_absence_rate |-> stat.SchoolTypeAbsenceRate,
     school_type_unexcused_rate |-> stat.SchoolTypeUnexcusedRate,
     region_absence_rate |-> stat.RegionAbsenceRate,
     region_unexcused_rate |-> stat.RegionUnexcusedRate,
     berlin_absence_rate |-> stat.BerlinAbsenceRate,
     berlin_unexcused_rate |-> stat.BerlinUnexcusedRate,
     scraped_at |-> stat.ScrapedAt, created_at |-> now]

\* SchoolStatisticsRepository.SaveAbsenceStat
SaveAbsenceStat(st, stat) ==
    ExecInsertOrReplace(st, "school_absence_stats", AbsenceStatRow(stat, st.now))

\* ------------------------------------------------------- SchoolDetailService
\* The "failed to save ... stats" warning of saveNormalizedStatistics
Warn(st) ==
    IF st.err THEN [st EXCEPT !.warned = TRUE, !.err = FALSE] ELSE st

saveCitizenship(st, detail) ==
    IF detail.CitizenshipTable = Nil THEN st
    ELSE LET citizenshipStats == NormalizeCitizenshipTable(detail.SchoolNumber,
                                     detail.CitizenshipTable, detail.ScrapedAt)
         IN  IF Len(citizenshipStats) > 0
             THEN Warn(SaveCitizenshipStats(st, citizenshipStats)) ELSE st

saveLanguage(st, detail) ==
    IF detail.LanguageTable = Nil THEN st
    ELSE LET languageStat == NormalizeLanguageTable(detail.SchoolNumber,
                                 detail.LanguageTable, detail.ScrapedAt)
         IN  IF languageStat # Nil THEN Warn(SaveLanguageStat(st, languageStat)) ELSE st

saveResidence(st, detail) ==
    IF detail.ResidenceTable = Nil THEN st
    ELSE LET residenceStats == NormalizeResidenceTable(detail.SchoolNumber,
                                   detail.ResidenceTable, detail.ScrapedAt)
         IN  IF Len(residenceStats) > 0
             THEN Warn(SaveResidenceStats(st, residenceStats)) ELSE st

saveAbsence(st, detail) ==
    IF detail.AbsenceTable = Nil THEN st
    ELSE LET absenceStat == NormalizeAbsenceTable(detail.SchoolNumber,
                                detail.AbsenceTable, detail.ScrapedAt)
         IN  IF absenceStat # Nil THEN Warn(SaveAbsenceStat(st, absenceStat)) ELSE st

\* A saveNormalizedStatistics without the check of the school number
saveNormalizedStatisticsAnyId(st, detail) ==
    saveAbsence(saveResidence(saveLanguage(saveCitizenship(st, detail), detail),
                              detail), detail)

\* SchoolDetailService.saveNormalizedStatistics: always returns nil
saveNormalizedStatistics(st, detail) ==
    IF detail.SchoolNumber = <<>> THEN st
    ELSE saveAbsence(saveResidence(saveLanguage(saveCitizenship(st, detail), detail),
                                   detail), detail)

\* A loop body that saves the statistics whatever Upsert returned
StoreOneStatsAnyway(st, detail) ==
    saveNormalizedStatistics(Upsert(st, detail), detail)

\* One iteration of the storing loop of ScrapeAndStoreDetails
StoreOne(st, detail) ==
    LET upserted == Upsert(st, detail)
    IN  IF upserted.err THEN upserted ELSE saveNormalizedStatistics(upserted, detail)

\* ------------------------------------------------------- SchoolDetailsScraper
cacheDir ==
    "./cache/school-details"

URL1 ==
    "https://www.bildung.berlin.de/Schulverzeichnis/Schulportrait.aspx?IDSchulzweig=1"

URL2 ==
    "https://www.bildung.berlin.de/Schulverzeichnis/Schulportrait.aspx?IDSchulzweig=2"

URLs ==
    {URL1, URL2}

\* hex(sha256(url)), as its first two characters and the rest
getCacheKey(url) ==
    IF url = URL1
    THEN <<"42", "dfeb62cf6bc105209e15e65decbfa95e58a35967eb8d4cb4ebe7f006a7f3e2">>
    ELSE <<"80", "a8070cd16c219ca3d5bf04d0054634f45e93b7689145cc9d57453bb0d2e060">>

\* filepath.Join(cacheDir, key[:2], key + ".json")
getCachePath(url) ==
    LET key == getCacheKey(url)
    IN  <<cacheDir, key[1], key \o <<".json">> >>

CachePaths ==
    {getCachePath(u) : u \in URLs}

\* A path with no file (os.ReadFile fails)
NoFile ==
    [nofile |-> TRUE]

\* A file that cannot be read, or whose bytes json.Unmarshal rejects (a write that
\* stopped half-way, a damaged file)
Corrupt ==
    [corrupt |-> TRUE]

\* An empty cache directory
NoFiles ==
    [p \in CachePaths |-> NoFile]

\* ClearCache: os.RemoveAll(cacheDir)
ClearCache(files) ==
    NoFiles

\* json.Marshal of a StatisticTable: data is omitted when empty
MarshalTable(table) ==
    [headers |-> table.Headers, rows |-> table.Rows]

\* An Unmarshal that loses the headers of a table
UnmarshalTableNoHeaders(obj) ==
    StatisticTable(<<>>, obj.rows)

UnmarshalTable(obj) ==
    StatisticTable(obj.headers, obj.rows)

TableKeys ==
    {"citizenship_table", "language_table", "residence_table", "absence_table"}

\* json.MarshalIndent(details): the four table keys are omitempty
MarshalDetail(d) ==
    LET all == [school_number |-> d.SchoolNumber, school_name |-> d.SchoolName,
                school_url |-> d.SchoolURL, languages |-> d.Languages,
                courses |-> d.Courses, offerings |-> d.Offerings,
                available_after_4th_grade |-> d.AvailableAfter4thGrade,
                additional_info |-> d.AdditionalInfo, equipment |-> d.Equipment,
                working_groups |-> d.WorkingGroups, partners |-> d.Partners,
                differentiation |-> d.Differentiation, lunch_info |-> d.LunchInfo,
                dual_learning |-> d.DualLearning,
                citizenship_table |-> d.CitizenshipTable,
                language_table |-> d.LanguageTable,
                residence_table |-> d.ResidenceTable,
                absence_table |-> d.AbsenceTable,
                scraped_at |-> d.ScrapedAt]
        keys == {k \in DOMAIN all : k \in TableKeys => all[k] # Nil}
    IN  [k \in keys |-> IF k \in TableKeys THEN MarshalTable(all[k]) ELSE all[k]]

\* json.Unmarshal(data, &details): a missing table key leaves the pointer nil
UnmarshalDetail(obj) ==
    LET tbl(k) == IF k \in DOMAIN obj THEN UnmarshalTable(obj[k]) ELSE Nil
    IN  [SchoolNumber |-> obj.school_number, SchoolName |-> obj.school_name,
         SchoolURL |-> obj.school_url, Languages |-> obj.languages,
         Courses |-> obj.courses, Offerings |-> obj.offerings,
         AvailableAfter4thGrade |-> obj.available_after_4th_grade,
         AdditionalInfo |-> obj.additional_info, Equipment |-> obj.equipment,
         WorkingGroups |-> obj.working_groups, Partners |-> obj.partners,
         Differentiation |-> obj.differentiation, LunchInfo |-> obj.lunch_info,
         DualLearning |-> obj.dual_learning,
         CitizenshipTable |-> tbl("citizenship_table"),
         LanguageTable |-> tbl("language_table"),
         ResidenceTable |-> tbl("residence_table"),
         AbsenceTable |-> tbl("absence_table"),
         ScrapedAt |-> obj.scraped_at]

\* A loadFromCache that ignores the error of json.Unmarshal: the zero record, found
UnmarshalErrorIgnored ==
    [found |-> TRUE,
     details |-> [SchoolNumber |-> <<>>, SchoolName |-> <<>>, SchoolURL |-> "",
                  Languages |-> <<>>, Courses |-> <<>>, Offerings |-> <<>>,
                  AvailableAfter4thGrade |-> FALSE, AdditionalInfo |-> <<>>,
                  Equipment |-> <<>>, WorkingGroups |-> <<>>, Partners |-> <<>>,
                  Differentiation |-> <<>>, LunchInfo |-> <<>>, DualLearning |-> <<>>,
                  CitizenshipTable |-> Nil, LanguageTable |-> Nil,
                  ResidenceTable |-> Nil, AbsenceTable |-> Nil, ScrapedAt |-> 0]]

\* loadFromCache when os.ReadFile or json.Unmarshal returns an error: nil, false
OnUnmarshalError ==
    [found |-> FALSE, details |-> Nil]

\* os.ReadFile and json.Unmarshal of loadFromCache on one file
ReadEntry(file) ==
    IF file = NoFile THEN [found |-> FALSE, details |-> Nil]
    ELSE IF file = Corrupt THEN OnUnmarshalError
    ELSE [found |-> TRUE, details |-> UnmarshalDetail(file)]

\* A cache that never answers
CacheFoundNever(useCache, files, url) ==
    FALSE

\* loadFromCache: found iff the cache is used and the file reads and unmarshals
CacheFound(useCache, files, url) ==
    useCache /\ ReadEntry(files[getCachePath(url)]).found

loadFromCache(files, url) ==
    ReadEntry(files[getCachePath(url)]).details

\* saveToCache when the write succeeds
saveToCache(useCache, files, url, details) ==
    IF ~useCache THEN files
    ELSE [files EXCEPT ![getCachePath(url)] = MarshalDetail(details)]

\* What a call of saveToCache can do to the files: write the entry ("written"),
\* fail before the file is opened ("refused": MkdirAll or the open fails), fail
\* after os.WriteFile truncated the file ("truncated")
WriteOutcomes ==
    {"written", "refused", "truncated"}

\* A saveToCache that writes whether or not the cache is in use
CacheWriteUnchecked(useCache, files, url, details, outcome) ==
    IF outcome = "refused" THEN files
    ELSE IF outcome = "truncated" THEN [files EXCEPT ![getCachePath(url)] = Corrupt]
    ELSE [files EXCEPT ![getCachePath(url)] = MarshalDetail(details)]

\* The files after a call of saveToCache with the given outcome
CacheWrite(useCache, files, url, details, outcome) ==
    IF ~useCache \/ outcome = "refused" THEN files
    ELSE IF outcome = "truncated" THEN [files EXCEPT ![getCachePath(url)] = Corrupt]
    ELSE saveToCache(useCache, files, url, details)

\* What a call of saveToCache did to the file of the url: nothing at all with the
\* cache disabled ("none"), else the outcome of its os.WriteFile
Wrote(useCache, outcome) ==
    IF useCache THEN outcome ELSE "none"

\* The state of the cache file of a url: "none", "corrupt" or "ok"
EntryState(files, url) ==
    IF files[getCachePath(url)] = NoFile THEN "none"
    ELSE IF files[getCachePath(url)] = Corrupt THEN "corrupt"
    ELSE "ok"

Separator ==
    <<" ", "-", " ">>

\* A parser that takes everything after the first " - " as the school number
parseAtFirstSeparator(fullName) ==
    IF fullName = <<>> THEN <<<<>>, <<>>>>
    ELSE LET parts == Split(fullName, Separator)
         IN  IF Len(parts) >= 2
             THEN <<TrimSpace(parts[1]),
                    TrimSpace(Join(Tail(parts), Separator))>>
             ELSE <<TrimSpace(fullName), <<>>>>

parseSchoolNameAndNumber(fullName) ==
    IF fullName = <<>> THEN <<<<>>, <<>>>>
    ELSE LET parts == Split(fullName, Separator)
         IN  IF Len(parts) >= 2
             THEN <<TrimSpace(Join(SubSeq(parts, 1, Len(parts) - 1), Separator)),
                    TrimSpace(parts[Len(parts)])>>
             ELSE <<TrimSpace(fullName), <<>>>>

Marker ==
    <<"ab", " ", "Jahrgangsstufe", " ", "5", " ", "beginnende">>

\* The steps of scrapeStatistics that can fail: the navigation probe, the click on
\* the panel, and the lookup or extraction of each of the four tables
TabOrder ==
    <<"CitizenshipTable", "LanguageTable", "ResidenceTable", "AbsenceTable">>

StatSteps ==
    {"probe", "click"} \cup {TabOrder[k] : k \in 1..Len(TabOrder)}

\* scrapeStatisticTable for the tab of a table field: nil when a chromedp call of it
\* fails, else what the page shows for the tab (nil when the tab or table is missing)
scrapeStatisticTable(page, tab, failing) ==
    IF tab \in failing THEN Nil ELSE page[tab]

\* A scrapeStatistics that gives up at the first tab without a table
NextTabsUntilNil(table, tabs) ==
    IF table = Nil THEN <<>> ELSE Tail(tabs)

\* The tabs scrapeStatistics goes on to after it assigned table for Head(tabs)
NextTabs(table, tabs) ==
    Tail(tabs)

\* The four assignments of scrapeStatistics, in their order
RECURSIVE scrapeTabs(_, _, _, _)
scrapeTabs(st, page, tabs, failing) ==
    IF tabs = <<>> THEN st
    ELSE LET table == scrapeStatisticTable(page, Head(tabs), failing)
         IN  scrapeTabs([details |-> [st.details EXCEPT ![Head(tabs)] = table],
                         attempted |-> Append(st.attempted, Head(tabs))],
                        page, NextTabs(table, tabs), failing)

\* scrapeStatistics: returns at once when the navigation probe fails; a failed click
\* on the panel is logged only
scrapeStatistics(details, page, failing) ==
    IF "probe" \in failing THEN [details |-> details, attempted |-> <<>>]
    ELSE scrapeTabs([details |-> details, attempted |-> <<>>], page, TabOrder, failing)

\* The record of ScrapeSchoolDetail after chromedp.Run succeeded, before
\* scrapeStatistics; page: what the browser evaluates
BasicInfo(schoolURL, page, now) ==
    LET parsed == parseSchoolNameAndNumber(page.schoolNameWithNumber)
    IN  [SchoolNumber |-> parsed[2], SchoolName |-> parsed[1], SchoolURL |-> schoolURL,
         Languages |-> page.Languages, Courses |-> page.Courses,
         Offerings |-> page.Offerings,
         AvailableAfter4thGrade |-> Contains(page.Offerings, Marker)
                                    \/ Contains(page.AdditionalInfo, Marker),
         AdditionalInfo |-> page.AdditionalInfo, Equipment |-> page.Equipment,
         WorkingGroups |-> page.WorkingGroups, Partners |-> page.Partners,
         Differentiation |-> page.Differentiation, LunchInfo |-> page.LunchInfo,
         DualLearning |-> page.DualLearning,
         CitizenshipTable |-> Nil,
         LanguageTable |-> Nil,
         ResidenceTable |-> Nil,
         AbsenceTable |-> Nil,
         ScrapedAt |-> now]

\* ScrapeSchoolDetail when chromedp.Run succeeds and the steps in failing fail
ScrapeWithFailures(schoolURL, page, now, failing) ==
    scrapeStatistics(BasicInfo(schoolURL, page, now), page, failing)

\* ScrapeSchoolDetail when chromedp.Run succeeds and no step of scrapeStatistics
\* fails: the four tables are those the page shows
ScrapeSchoolDetail(schoolURL, page, now) ==
    ScrapeWithFailures(schoolURL, page, now, {}).details

\* A ScrapeSchoolDetail that returns the record as far as it got when chromedp.Run
\* fails: the url and the time only
ScrapeFailedPartial(schoolURL, now) ==
    [details |-> [SchoolNumber |-> <<>>, SchoolName |-> <<>>, SchoolURL |-> schoolURL,
                  Languages |-> <<>>, Courses |-> <<>>, Offerings |-> <<>>,
                  AvailableAfter4thGrade |-> FALSE,
                  AdditionalInfo |-> <<>>, Equipment |-> <<>>, WorkingGroups |-> <<>>,
                  Partners |-> <<>>, Differentiation |-> <<>>, LunchInfo |-> <<>>,
                  DualLearning |-> <<>>,
                  CitizenshipTable |-> Nil, LanguageTable |-> Nil,
                  ResidenceTable |-> Nil, AbsenceTable |-> Nil,
                  ScrapedAt |-> now],
     err |-> "nil"]

\* ScrapeSchoolDetail when chromedp.Run (navigation and the scalar fields) fails:
\* return nil, fmt.Errorf("failed to extract basic info: %w", err)
ScrapeFailed(schoolURL, now) ==
    [details |-> Nil, err |-> "failed to extract basic info"]

\* ------------------------------------------------------- the source site
\* What the browser can evaluate on a detail page.  PageAlpha and PageAlphaNew are two
\* renderings of school 01Y01 (the category sets differ, three tables are gone or
\* hold no data row), PageBeta repeats a citizenship category, PageNoId has no
\* " - " in its name label.
PageAlpha ==
    [schoolNameWithNumber |-> <<"Alpha", " ", "-", " ", "01Y01">>,
     Languages |-> <<"Englisch">>, Courses |-> <<"Mathematik">>,
     Offerings |-> <<"Zug", " ">> \o Marker, AdditionalInfo |-> <<>>,
     Equipment |-> <<"Mensa">>, WorkingGroups |-> <<"Chor">>,
     Partners |-> <<"Verein">>, Differentiation |-> <<"Kurse">>,
     LunchInfo |-> <<"warm">>, DualLearning |-> <<"Praktikum">>,
     CitizenshipTable |-> StatisticTable(<<<<"Land">>, <<"w">>, <<"m">>, <<"Gesamt">>>>,
        << <<<<"Deutsch">>, <<"1", "0">>, <<"1", "2">>, <<"2", "2">>>>,
           <<<<"Polen">>, <<"1">>, <<"2">>, <<"3">>>> >>),
     LanguageTable |-> StatisticTable(<<>>,
        << <<<<"Gesamt">>, <<"w">>, <<"m">>, <<"ndH">>, <<"%">>>>,
           <<<<"1", ".", "2", "3", "4">>, <<"5">>, <<"6">>, <<"1", "1">>,
             <<"4", "5", ",", "6", " ", "%">>>> >>),
     ResidenceTable |-> StatisticTable(<<>>,
        << <<<<"Mitte">>, <<"2", "0">>>>, <<<<"Pankow">>, <<"5">>>>,
           <<Insgesamt, <<"2", "5">>>> >>),
     AbsenceTable |-> StatisticTable(<<>>,
        << <<<<"S", "c", "h", "u", "l", "e">>, <<"5", ",", "5">>, <<"1">>>>,
           <<<<"S", "c", "h", "u", "l", "a", "r", "t">>, <<"6">>, <<"2">>>>,
           <<<<"R", "e", "g", "i", "o", "n">>, <<"7">>, <<"3">>>>,
           <<<<"B", "e", "r", "l", "i", "n">>, <<"8">>, <<"4">>>> >>)]

PageAlphaNew ==
    [schoolNameWithNumber |-> <<"Alpha", " ", "-", " ", "Neu", " ", "-", " ", "01Y01">>,
     Languages |-> <<"Latein">>, Courses |-> <<"Physik">>,
     Offerings |-> <<"Ganztag">>, AdditionalInfo |-> <<"Umbau">>,
     Equipment |-> <<"Aula">>, WorkingGroups |-> <<"Schach">>,
     Partners |-> <<"Firma">>, Differentiation |-> <<"Niveau">>,
     LunchInfo |-> <<"kalt">>, DualLearning |-> <<"Werkstatt">>,
     CitizenshipTable |-> StatisticTable(<<>>,
        << <<<<"Polen">>, <<"4">>, <<"4">>, <<"8">>>> >>),
     LanguageTable |-> Nil,
     ResidenceTable |-> StatisticTable(<<>>, << <<Insgesamt, <<"9">>>> >>),
     AbsenceTable |-> Nil]

PageBeta ==
    [schoolNameWithNumber |-> <<"Beta", " ", "-", " ", "02Y02">>,
     Languages |-> <<>>, Courses |-> <<>>, Offerings |-> <<>>,
     AdditionalInfo |-> Marker, Equipment |-> <<>>, WorkingGroups |-> <<>>,
     Partners |-> <<>>, Differentiation |-> <<>>, LunchInfo |-> <<>>,
     DualLearning |-> <<>>,
     CitizenshipTable |-> StatisticTable(<<>>,
        << <<<<"Deutsch">>, <<"1">>, <<"1">>, <<"2">>>>,
           <<<<"Deutsch">>, <<"3">>, <<"3">>, <<"6">>>> >>),
     LanguageTable |-> Nil,
     ResidenceTable |-> StatisticTable(<<>>, << <<<<"Mitte">>, <<"7">>>> >>),
     AbsenceTable |-> Nil]

PageNoId ==
    [schoolNameWithNumber |-> <<"NoDelimiterName">>,
     Languages |-> <<>>, Courses |-> <<>>, Offerings |-> <<>>,
     AdditionalInfo |-> <<>>, Equipment |-> <<>>, WorkingGroups |-> <<>>,
     Partners |-> <<>>, Differentiation |-> <<>>, LunchInfo |-> <<>>,
     DualLearning |-> <<>>,
     CitizenshipTable |-> StatisticTable(<<>>,
        << <<<<"Deutsch">>, <<"1">>, <<"1">>, <<"2">>>> >>),
     LanguageTable |-> Nil, ResidenceTable |-> Nil, AbsenceTable |-> Nil]

PageNoIdEither ==
    [schoolNameWithNumber |-> <<"AnotherName">>,
     Languages |-> <<"Englisch">>, Courses |-> <<>>, Offerings |-> <<>>,
     AdditionalInfo |-> <<>>, Equipment |-> <<>>, WorkingGroups |-> <<>>,
     Partners |-> <<>>, Differentiation |-> <<>>, LunchInfo |-> <<>>,
     DualLearning |-> <<>>,
     CitizenshipTable |-> Nil, LanguageTable |-> Nil,
     ResidenceTable |-> StatisticTable(<<>>, << <<<<"Mitte">>, <<"7">>>> >>),
     AbsenceTable |-> Nil]

\* The pages a url may render when it is harvested
Site(url) ==
    IF url = URL1 THEN {PageAlpha, PageAlphaNew, PageNoIdEither}
    ELSE {PageBeta, PageNoId}

\* The listings getSchoolLinks may return
RECURSIVE SeqsUpTo(_, _)
SeqsUpTo(S, n) ==
    IF n = 0 THEN {<<>>}
    ELSE LET shorter == SeqsUpTo(S, n - 1)
         IN  shorter \cup {Append(q, x) : q \in shorter, x \in S}

Listings ==
    SeqsUpTo(URLs, MaxLinks)

\* ------------------------------------------------------- state
VARIABLES
    pc,            \* where the run of ScrapeAndStoreDetails stands: idle, links, loop, store, done
    clock,         \* time.Now()
    useCache,      \* SchoolDetailsScraper.useCache of the run
    expiredIn,     \* the phase in which the run context became done, "none" while it is live
    links,         \* schoolLinks
    i,             \* 1-based index of the link the harvest loop is at
    allDetails,    \* allDetails, then details of ScrapeAndStoreDetails
    cachedCount,
    scrapedCount,
    j,             \* 1-based index of the record the storing loop is at
    successCount,
    errorCount,
    result,        \* the error ScrapeAndStoreDetails returned: none (still running), nil, or the message
    cache,         \* the files under cacheDir, by path
    db,            \* the relational store
    outcomes,      \* log of the harvest loop: per link index, what happened to the link
    stored,        \* log of the storing loop: per record index, whether Upsert failed, whether a statistics warning was logged
    lastReplace,   \* per replaced statistic table and school: rows before and rows given to the latest Save call of the run
    call,          \* the latest direct repository call (RepoSpec)
    lastUpsert,    \* per school number, the detail of the latest Upsert that returned nil (RepoSpec)
    saved          \* per url, the record of the latest saveToCache that wrote its file, Nil once the file is cleared or damaged (CacheSpec)

vars ==
    <<pc, clock, useCache, expiredIn, links, i, allDetails, cachedCount,
      scrapedCount, j, successCount, errorCount, result, cache, db, outcomes, stored,
      lastReplace, call, lastUpsert, saved>>

harvestVars ==
    <<links, i, allDetails, cachedCount, scrapedCount, outcomes>>

storeVars ==
    <<j, successCount, errorCount, stored, lastReplace>>

repoLog ==
    <<call, lastUpsert, saved>>

ctxDone ==
    expiredIn # "none"

SchoolNumbers ==
    {<<"01Y01">>, <<"02Y02">>}

ReplacedTables ==
    {"school_citizenship_stats", "school_residence_stats"}

NoReplace ==
    [t \in ReplacedTables |-> [x \in SchoolNumbers |-> Nil]]

NoCall ==
    [op |-> "none", n |-> 0]

NoneSaved ==
    [u \in URLs |-> Nil]

NoUpsert ==
    [x \in SchoolNumbers \cup {<<>>} |-> Nil]

\* The record an earlier run harvested from URL1 at time 0
PriorDetail ==
    ScrapeSchoolDetail(URL1, PageAlpha, 0)

\* What earlier runs left: nothing ("none"), the record of URL1 harvested, cached
\* and persisted without a fault ("harvested"), the same with the cache file of
\* URL1 damaged since ("damaged")
PriorRuns ==
    {"none", "harvested", "damaged"}

\* The process starts on what earlier runs left
Init ==
    /\ pc = "idle"
    /\ clock = 0
    /\ useCache = TRUE
    /\ expiredIn = "none"
    /\ links = <<>>
    /\ i = 1
    /\ allDetails = <<>>
    /\ cachedCount = 0
    /\ scrapedCount = 0
    /\ j = 1
    /\ successCount = 0
    /\ errorCount = 0
    /\ result = "none"
    /\ \E prior \in PriorRuns :
          /\ cache = CASE prior = "none" -> NoFiles
                        [] prior = "harvested" ->
                              CacheWrite(TRUE, NoFiles, URL1, PriorDetail, "written")
                        [] prior = "damaged" ->
                              CacheWrite(TRUE, NoFiles, URL1, PriorDetail, "truncated")
          /\ db = IF prior = "none" THEN EmptyDB
                  ELSE StoreOne(Session(EmptyDB, NoFault, FALSE, 0), PriorDetail).db
    /\ outcomes = <<>>
    /\ stored = <<>>
    /\ lastReplace = NoReplace
    /\ call = NoCall
    /\ lastUpsert = NoUpsert
    /\ saved = NoneSaved

\* main of cmd/scrape-school-details: a scraper with or without cache, the cache
\* cleared on request, a fresh run context, the call of ScrapeAndStoreDetails
StartRun ==
    /\ pc = "idle"
    /\ clock' = clock + 1
    /\ \E noCache \in BOOLEAN, clearCache \in BOOLEAN :
          /\ useCache' = ~noCache
          /\ cache' = IF clearCache THEN ClearCache(cache) ELSE cache
    /\ pc' = "links"
    /\ UNCHANGED <<expiredIn, harvestVars, storeVars, result, db, repoLog>>

\* The run context's deadline passes (or it is cancelled) while the run is under way
Expire ==
    /\ pc \in {"links", "loop", "store"}
    /\ expiredIn = "none"
    /\ expiredIn' = pc
    /\ UNCHANGED <<pc, clock, useCache, harvestVars, storeVars, result, cache, db,
                   repoLog>>

\* A listing failure that is swallowed: ScrapeAndStoreDetails returns nil
LinksErrorSwallowed ==
    "nil"

\* What ScrapeAndStoreDetails returns when ScrapeSchoolDetails returned an error
\* ("failed to get school links" wrapped)
LinksError ==
    "failed to scrape school details"

\* getSchoolLinks and the error return of ScrapeSchoolDetails / ScrapeAndStoreDetails
GetSchoolLinks ==
    /\ pc = "links"
    /\ \/ /\ ~ctxDone
          /\ \E found \in Listings : links' = found
          /\ pc' = "loop"
          /\ UNCHANGED result
       \/ /\ pc' = "done"
          /\ result' = LinksError
          /\ UNCHANGED links
    /\ UNCHANGED <<clock, useCache, expiredIn, i, allDetails, cachedCount,
                   scrapedCount, outcomes, storeVars, cache, db, repoLog>>

\* The log with the entry of index k written
Logged(log, k, entry) ==
    IF k <= Len(log) THEN [log EXCEPT ![k] = entry] ELSE Append(log, entry)

\* A harvest loop that gives up at the first failing link (break)
OnScrapeErrorBreak(k, n) ==
    n + 1

\* A harvest loop that tries the failing link again
OnScrapeErrorRetry(k, n) ==
    k

\* The index the harvest loop goes to after ScrapeSchoolDetail returned an error
\* for link k of n: continue
OnScrapeError(k, n) ==
    k + 1

\* A loop that sleeps at the end of every iteration
PacedAlways(kind) ==
    TRUE

\* Whether the iteration of the harvest loop that ended as kind ("hit", "failed",
\* "scraped") executed the time.Sleep(2 * time.Second) at the end of the loop body
Paced(kind) ==
    kind = "scraped"

\* One iteration of the harvest loop of ScrapeSchoolDetails
ProcessLink ==
    /\ pc = "loop"
    /\ i <= Len(links)
    /\ LET link == links[i]
           seen(kind, run, wrote) ==
               Logged(outcomes, i,
                      [url |-> link, kind |-> kind, done |-> ctxDone,
                       entry |-> EntryState(cache, link),
                       slept |-> Paced(kind), run |-> run, wrote |-> wrote])
       IN  IF CacheFound(useCache, cache, link)
           THEN /\ allDetails' = Append(allDetails, loadFromCache(cache, link))
                /\ cachedCount' = cachedCount + 1
                /\ i' = i + 1
                /\ outcomes' = seen("hit", "none", "none")
                /\ UNCHANGED <<cache, scrapedCount>>
           ELSE \/ \E res \in {ScrapeFailed(link, clock)} :
                      IF res.err # "nil"
                      THEN /\ i' = OnScrapeError(i, Len(links))
                           /\ outcomes' = seen("failed", "error", "none")
                           /\ UNCHANGED <<allDetails, cachedCount, cache,
                                          scrapedCount>>
                      ELSE /\ cache' = CacheWrite(useCache, cache, link, res.details,
                                                  "written")
                           /\ allDetails' = Append(allDetails, res.details)
                           /\ scrapedCount' = scrapedCount + 1
                           /\ i' = i + 1
                           /\ outcomes' = seen("scraped", "error", Wrote(useCache, "written"))
                           /\ UNCHANGED cachedCount
                \/ /\ ~ctxDone
                   /\ \E page \in Site(link), outcome \in WriteOutcomes :
                        \E details \in {ScrapeSchoolDetail(link, page, clock)} :
                            /\ cache' = CacheWrite(useCache, cache, link, details, outcome)
                            /\ allDetails' = Append(allDetails, details)
                            /\ outcomes' = seen("scraped", "ok", Wrote(useCache, outcome))
                   /\ scrapedCount' = scrapedCount + 1
                   /\ i' = i + 1
                   /\ UNCHANGED cachedCount
    /\ UNCHANGED <<pc, clock, useCache, expiredIn, links, storeVars, result, db,
                   repoLog>>

\* A harvest that hands its records over after the first link
HarvestOverAtFirst(k, n) ==
    k > 1

\* `for i, link := range links` has run over the n links of the listing
HarvestOver(k, n) ==
    k > n

\* The harvest loop is over: ScrapeSchoolDetails returns allDetails, nil
ReturnDetails ==
    /\ pc = "loop"
    /\ HarvestOver(i, Len(links))
    /\ pc' = "store"
    /\ UNCHANGED <<clock, useCache, expiredIn, harvestVars, storeVars, result, cache,
                   db, repoLog>>

\* The faults one persistence pass may meet: none, or statement `at` of the pass fails
Faults(detail) ==
    LET most == StoreOne(Session(EmptyDB, NoFault, FALSE, 0), detail).n
    IN  {[at |-> k] : k \in 0..most}

\* A storing loop that gives up at the first failing Upsert (break)
OnUpsertErrorBreak(k, n) ==
    n + 1

\* The index the storing loop goes to after Upsert returned an error for record k of
\* n: continue
OnUpsertError(k, n) ==
    k + 1

\* The rows the normalized statistics of detail make in table t
StatRows(t, detail, now) ==
    LET cit == NormalizeCitizenshipTable(detail.SchoolNumber, detail.CitizenshipTable,
                                         detail.ScrapedAt)
        lang == NormalizeLanguageTable(detail.SchoolNumber, detail.LanguageTable,
                                       detail.ScrapedAt)
        res == NormalizeResidenceTable(detail.SchoolNumber, detail.ResidenceTable,
                                       detail.ScrapedAt)
        abs == NormalizeAbsenceTable(detail.SchoolNumber, detail.AbsenceTable,
                                     detail.ScrapedAt)
    IN  CASE t = "school_citizenship_stats" ->
                {CitizenshipRow(cit[k], now) : k \in 1..Len(cit)}
          [] t = "school_language_stats" ->
                IF lang = Nil THEN {} ELSE {LanguageRow(lang, now)}
          [] t = "school_residence_stats" ->
                {ResidenceRow(res[k], now) : k \in 1..Len(res)}
          [] t = "school_absence_stats" ->
                IF abs = Nil THEN {} ELSE {AbsenceStatRow(abs, now)}

\* The rows of table t of the store for one school
RowsOf(store, t, schoolNumber) ==
    {r \in store[t] : r.school_number = schoolNumber}

\* What the latest Save call of table t did, if this pass called Save for it
Replaced(t, before, st, detail) ==
    IF st.err \/ detail.SchoolNumber = <<>> \/ StatRows(t, detail, st.now) = {}
    THEN lastReplace[t]
    ELSE [lastReplace[t] EXCEPT ![detail.SchoolNumber] =
             [old |-> RowsOf(before, t, detail.SchoolNumber),
              new |-> StatRows(t, detail, st.now)]]

\* One iteration of the storing loop of ScrapeAndStoreDetails: Upsert returns an
\* error (ctx done or the statement faults) and the loop continues, or it returns
\* nil and saveNormalizedStatistics runs
StoreDetail ==
    /\ pc = "store"
    /\ j <= Len(allDetails)
    /\ \/ /\ \E st \in {StoreOne(Session(db, [at |-> 1], ctxDone, clock),
                                   allDetails[j])} :
                db' = st.db
          /\ errorCount' = errorCount + 1
          /\ j' = OnUpsertError(j, Len(allDetails))
          /\ stored' = Logged(stored, j, [err |-> TRUE, warned |-> FALSE])
          /\ UNCHANGED <<successCount, lastReplace>>
       \/ /\ ~ctxDone
          /\ \E fault \in Faults(allDetails[j]) \ {[at |-> 1]} :
               \E detail \in {allDetails[j]},
                  st \in {StoreOne(Session(db, fault, ctxDone, clock), allDetails[j])} :
                   /\ db' = st.db
                   /\ successCount' = successCount + 1
                   /\ j' = j + 1
                   /\ stored' = Logged(stored, j, [err |-> st.err, warned |-> st.warned])
                   /\ lastReplace' = [t \in ReplacedTables |->
                                         Replaced(t, db, st, detail)]
                   /\ UNCHANGED errorCount
    /\ UNCHANGED <<pc, clock, useCache, expiredIn, harvestVars, result, cache, repoLog>>

\* The storing loop is over: ScrapeAndStoreDetails returns
Finish ==
    /\ pc = "store"
    /\ j > Len(allDetails)
    /\ pc' = "done"
    /\ result' = IF errorCount > 0 THEN "completed with errors" ELSE "nil"
    /\ UNCHANGED <<clock, useCache, expiredIn, harvestVars, storeVars, cache, db,
                   repoLog>>

Next ==
    \/ StartRun
    \/ Expire
    \/ GetSchoolLinks
    \/ ProcessLink
    \/ ReturnDetails
    \/ StoreDetail
    \/ Finish

Spec ==
    Init /\ [][Next]_vars

\* Every call the run makes returns: the browser calls are bounded by the page
\* timeout and the run context, the store and the files answer
RunStep ==
    GetSchoolLinks \/ ProcessLink \/ ReturnDetails \/ StoreDetail \/ Finish

FairSpec ==
    Spec /\ WF_vars(RunStep)

\* ------------------------------------------------------- repository calls
\* The repositories called directly, on a store fresh from RunMigrations
RepoInit ==
    /\ pc = "repo"
    /\ clock = 0
    /\ useCache = TRUE
    /\ expiredIn = "none"
    /\ links = <<>>
    /\ i = 1
    /\ allDetails = <<>>
    /\ cachedCount = 0
    /\ scrapedCount = 0
    /\ j = 1
    /\ successCount = 0
    /\ errorCount = 0
    /\ result = "none"
    /\ cache = NoFiles
    /\ db = EmptyDB
    /\ outcomes = <<>>
    /\ stored = <<>>
    /\ lastReplace = NoReplace
    /\ call = NoCall
    /\ lastUpsert = NoUpsert
    /\ saved = NoneSaved

runVars ==
    <<pc, useCache, expiredIn, harvestVars, storeVars, result, cache>>

Pages ==
    {PageAlpha, PageAlphaNew, PageBeta, PageNoId}

\* time.Now() moves on between two calls
RepoTick ==
    /\ pc = "repo"
    /\ clock < MaxClock
    /\ clock' = clock + 1
    /\ UNCHANGED <<runVars, db, repoLog>>

\* A call of SchoolDetailRepository.Upsert
RepoUpsert ==
    /\ pc = "repo"
    /\ call.n < MaxCalls
    /\ \E u \in URLs, fails \in BOOLEAN :
         \E page \in Site(u) :
            LET detail == ScrapeSchoolDetail(u, page, clock)
                fault == IF fails THEN [at |-> 1] ELSE NoFault
                st == Upsert(Session(db, fault, FALSE, clock), detail)
            IN  /\ db' = st.db
                /\ call' = [op |-> "Upsert", n |-> call.n + 1, detail |-> detail,
                            err |-> st.err, before |-> db, now |-> clock]
                /\ lastUpsert' = IF st.err THEN lastUpsert
                                  ELSE [lastUpsert EXCEPT ![detail.SchoolNumber] = detail]
    /\ UNCHANGED <<runVars, clock, saved>>

\* The slices of citizenship rows the calls are made with: the normalized table of
\* a page under a school number, no rows, rows of two schools
CitizenshipInputs(now) ==
    {NormalizeCitizenshipTable(x, p.CitizenshipTable, now) : x \in SchoolNumbers, p \in Pages}
    \cup {<<>>}
    \cup {NormalizeCitizenshipTable(<<"01Y01">>, PageAlphaNew.CitizenshipTable, now)
            \o NormalizeCitizenshipTable(<<"02Y02">>, PageNoId.CitizenshipTable, now)}

\* A call of SchoolStatisticsRepository.SaveCitizenshipStats
RepoSaveCitizenshipStats ==
    /\ pc = "repo"
    /\ call.n < MaxCalls
    /\ \E stats \in CitizenshipInputs(clock) :
         \E at \in 0..(Len(stats) + 1) :
            LET st == SaveCitizenshipStats(Session(db, [at |-> at], FALSE, clock), stats)
            IN  /\ db' = st.db
                /\ call' = [op |-> "SaveCitizenshipStats", n |-> call.n + 1,
                            stats |-> stats, err |-> st.err, before |-> db,
                            now |-> clock]
    /\ UNCHANGED <<runVars, clock, lastUpsert, saved>>

\* The slices of residence rows the calls are made with
ResidenceInputs(now) ==
    {NormalizeResidenceTable(x, p.ResidenceTable, now) : x \in SchoolNumbers, p \in Pages}
    \cup {<<>>}
    \cup {NormalizeResidenceTable(<<"01Y01">>, PageBeta.ResidenceTable, now)
            \o NormalizeResidenceTable(<<"02Y02">>, PageAlpha.ResidenceTable, now)}

\* A call of SchoolStatisticsRepository.SaveResidenceStats
RepoSaveResidenceStats ==
    /\ pc = "repo"
    /\ call.n < MaxCalls
    /\ \E stats \in ResidenceInputs(clock) :
         \E at \in 0..(Len(stats) + 1) :
            LET st == SaveResidenceStats(Session(db, [at |-> at], FALSE, clock), stats)
            IN  /\ db' = st.db
                /\ call' = [op |-> "SaveResidenceStats", n |-> call.n + 1,
                            stats |-> stats, err |-> st.err, before |-> db,
                            now |-> clock]
    /\ UNCHANGED <<runVars, clock, lastUpsert, saved>>

RepoNext ==
    \/ RepoTick
    \/ RepoUpsert
    \/ RepoSaveCitizenshipStats
    \/ RepoSaveResidenceStats

RepoSpec ==
    RepoInit /\ [][RepoNext]_vars

\* ------------------------------------------------------- cache calls
\* A scraper constructed with or without cache, over an empty cache directory
CacheInit ==
    /\ pc = "cache"
    /\ clock = 0
    /\ useCache \in BOOLEAN
    /\ expiredIn = "none"
    /\ links = <<>>
    /\ i = 1
    /\ allDetails = <<>>
    /\ cachedCount = 0
    /\ scrapedCount = 0
    /\ j = 1
    /\ successCount = 0
    /\ errorCount = 0
    /\ result = "none"
    /\ cache = NoFiles
    /\ db = EmptyDB
    /\ outcomes = <<>>
    /\ stored = <<>>
    /\ lastReplace = NoReplace
    /\ call = NoCall
    /\ lastUpsert = NoUpsert
    /\ saved = NoneSaved

notCacheVars ==
    <<pc, clock, useCache, expiredIn, harvestVars, storeVars, result, db, lastUpsert>>

\* A call of saveToCache with a harvested record
CacheSave ==
    /\ pc = "cache"
    /\ call.n < MaxCalls
    /\ \E u \in URLs, outcome \in WriteOutcomes :
         \E page \in Site(u) :
            LET details == ScrapeSchoolDetail(u, page, clock)
            IN  /\ cache' = CacheWrite(useCache, cache, u, details, outcome)
                /\ call' = [op |-> "saveToCache", n |-> call.n + 1, url |-> u,
                            details |-> details,
                            err |-> useCache /\ outcome # "written"]
                /\ saved' = IF ~useCache \/ outcome = "refused" THEN saved
                            ELSE IF outcome = "truncated" THEN [saved EXCEPT ![u] = Nil]
                            ELSE [saved EXCEPT ![u] = details]
    /\ UNCHANGED notCacheVars

\* A call of loadFromCache
CacheLoad ==
    /\ pc = "cache"
    /\ call.n < MaxCalls
    /\ \E u \in URLs :
         call' = [op |-> "loadFromCache", n |-> call.n + 1, url |-> u,
                  found |-> CacheFound(useCache, cache, u),
                  details |-> IF CacheFound(useCache, cache, u)
                              THEN loadFromCache(cache, u) ELSE Nil]
    /\ UNCHANGED <<notCacheVars, cache, saved>>

\* A call of ClearCache
CacheClear ==
    /\ pc = "cache"
    /\ call.n < MaxCalls
    /\ cache' = ClearCache(cache)
    /\ call' = [op |-> "ClearCache", n |-> call.n + 1]
    /\ saved' = NoneSaved
    /\ UNCHANGED notCacheVars

CacheNext ==
    \/ CacheSave
    \/ CacheLoad
    \/ CacheClear

CacheSpec ==
    CacheInit /\ [][CacheNext]_vars

\* ------------------------------------------------------- table extractor
\* html.Node: a text node carries its text in Data, an element node its tag (a
\* string of one symbol)
TextNode(data) ==
    [Type |-> "TextNode", Data |-> data, Children |-> <<>>]

ElementNode(tag, children) ==
    [Type |-> "ElementNode", Data |-> <<tag>>, Children |-> children]

DocumentNode(children) ==
    [Type |-> "DocumentNode", Data |-> <<>>, Children |-> children]

IsElement(n, tag) ==
    n.Type = "ElementNode" /\ n.Data = <<tag>>

\* The number of tr elements at the head of a list of children of a table element
LeadingRows(children) ==
    CHOOSE k \in 0..Len(children) :
        /\ \A m \in 1..k : IsElement(children[m], "tr")
        /\ k = Len(children) \/ ~IsElement(children[k + 1], "tr")

\* Tree construction inside a table element: tr elements that are written directly
\* in the table are put into a tbody element of their own
RECURSIVE InTable(_)
InTable(children) ==
    IF children = <<>> THEN <<>>
    ELSE LET k == LeadingRows(children)
         IN  IF k > 0
             THEN <<ElementNode("tbody", SubSeq(children, 1, k))>>
                  \o InTable(SubSeq(children, k + 1, Len(children)))
             ELSE <<Head(children)>> \o InTable(Tail(children))

\* html.Parse of a fragment, given as the nodes it is written of: the document with
\* its html, head and body elements, every table with its sections
htmlParse(markup) ==
    LET inBody == [m \in 1..Len(markup) |->
                      IF IsElement(markup[m], "table")
                      THEN ElementNode("table", InTable(markup[m].Children))
                      ELSE markup[m]]
    IN  DocumentNode(<<ElementNode("html", <<ElementNode("head", <<>>),
                                            ElementNode("body", inBody)>>)>>)

\* findTable: the first table element in document order, or nil
RECURSIVE findTable(_)
RECURSIVE findTableIn(_)
findTable(n) ==
    IF IsElement(n, "table") THEN n ELSE findTableIn(n.Children)

findTableIn(children) ==
    IF children = <<>> THEN Nil
    ELSE LET found == findTable(Head(children))
         IN  IF found # Nil THEN found ELSE findTableIn(Tail(children))

\* extractText: the trimmed texts of the descendants, concatenated and trimmed
RECURSIVE extractText(_)
RECURSIVE extractTexts(_)
extractText(n) ==
    IF n.Type = "TextNode" THEN TrimSpace(n.Data)
    ELSE TrimSpace(extractTexts(n.Children))

extractTexts(children) ==
    IF children = <<>> THEN <<>>
    ELSE extractText(Head(children)) \o extractTexts(Tail(children))

\* The texts of the th and td children of a tr element
RECURSIVE CellsOf(_)
CellsOf(children) ==
    IF children = <<>> THEN <<>>
    ELSE (IF IsElement(Head(children), "th") \/ IsElement(Head(children), "td")
          THEN <<extractText(Head(children))>> ELSE <<>>)
         \o CellsOf(Tail(children))

\* The tr case of parseNode for a row with cells: a row of a thead, and the first row
\* met, is assigned to Headers; any other row is appended to Rows
RowWithCells(st, cells, inThead) ==
    IF inThead \/ st.isFirstRow
    THEN [st EXCEPT !.Headers = cells, !.isFirstRow = FALSE]
    ELSE [st EXCEPT !.Rows = Append(@, cells)]

\* parseNode, as a function of the table and isFirstRow it updates
RECURSIVE parseNode(_, _, _)
RECURSIVE parseNodes(_, _, _)
parseNode(n, inThead, st) ==
    IF n.Type # "ElementNode" THEN st
    ELSE IF n.Data = <<"thead">> THEN parseNodes(n.Children, TRUE, st)
    ELSE IF n.Data = <<"tbody">> THEN parseNodes(n.Children, FALSE, st)
    ELSE LET cells == CellsOf(n.Children)
             after == IF n.Data = <<"tr">> /\ Len(cells) > 0
                      THEN RowWithCells(st, cells, inThead)
                      ELSE st
         IN  parseNodes(n.Children, inThead, after)

parseNodes(children, inThead, st) ==
    IF children = <<>> THEN st
    ELSE parseNodes(Tail(children), inThead, parseNode(Head(children), inThead, st))

\* The table parseTableHTML returns once the table element has been walked
ParsedTable(st) ==
    StatisticTable(st.Headers, st.Rows)

parseTableHTML(tableHTML) ==
    IF tableHTML = <<>> THEN Nil
    ELSE LET tableNode == findTable(htmlParse(tableHTML))
         IN  IF tableNode = Nil THEN Nil
             ELSE ParsedTable(parseNode(tableNode, FALSE,
                                        [Headers |-> <<>>, Rows |-> <<>>,
                                         isFirstRow |-> TRUE]))

\* The fragments handed to parseTableHTML: the empty string, markup without a table,
\* and tables of up to MaxSections sections (thead, tbody, or a tr written directly in
\* the table) of up to MaxRows rows
MaxRows ==
    2

MaxSections ==
    2

HeadRow ==
    ElementNode("tr", <<ElementNode("th", <<TextNode(<<" ", "Land", " ">>)>>),
                        ElementNode("th", <<TextNode(<<"w">>)>>)>>)

DataRow ==
    ElementNode("tr", <<ElementNode("td", <<TextNode(<<"Mitte">>)>>),
                        ElementNode("td", <<ElementNode("b", <<TextNode(<<"2">>)>>),
                                            TextNode(<<"0", " ">>)>>)>>)

NoCellRow ==
    ElementNode("tr", <<>>)

TableRows ==
    {HeadRow, DataRow, NoCellRow}

Sections ==
    {ElementNode(tag, rows) : tag \in {"thead", "tbody"},
                              rows \in SeqsUpTo(TableRows, MaxRows)}
    \cup TableRows

Fragments ==
    {<<>>, <<ElementNode("p", <<TextNode(<<"keine", " ", "Daten">>)>>)>>}
    \cup {<<ElementNode("table", sections)>> : sections \in SeqsUpTo(Sections, MaxSections)}

ParseInit ==
    /\ pc = "parse"
    /\ clock = 0
    /\ useCache = FALSE
    /\ expiredIn = "none"
    /\ links = <<>>
    /\ i = 1
    /\ allDetails = <<>>
    /\ cachedCount = 0
    /\ scrapedCount = 0
    /\ j = 1
    /\ successCount = 0
    /\ errorCount = 0
    /\ result = "none"
    /\ cache = NoFiles
    /\ db = EmptyDB
    /\ outcomes = <<>>
    /\ stored = <<>>
    /\ lastReplace = NoReplace
    /\ \E tableHTML \in Fragments :
         call = [op |-> "none", n |-> 0, tableHTML |-> tableHTML]
    /\ lastUpsert = NoUpsert
    /\ saved = NoneSaved

\* A call of parseTableHTML on the fragment
ParseTable ==
    /\ pc = "parse"
    /\ call.op = "none"
    /\ call' = [op |-> "parseTableHTML", n |-> 1, tableHTML |-> call.tableHTML,
                table |-> parseTableHTML(call.tableHTML)]
    /\ UNCHANGED <<notCacheVars, cache, saved>>

ParseSpec ==
    ParseInit /\ [][ParseTable]_vars

\* ------------------------------------------------------- persisting records
\* The records one harvest of the site can give
Records ==
    UNION {{ScrapeSchoolDetail(u, page, 0) : page \in Site(u)} : u \in URLs}

PersistInit ==
    /\ pc = "persist"
    /\ clock = 0
    /\ useCache = FALSE
    /\ expiredIn = "none"
    /\ links = <<>>
    /\ i = 1
    /\ allDetails = <<>>
    /\ cachedCount = 0
    /\ scrapedCount = 0
    /\ j = 1
    /\ successCount = 0
    /\ errorCount = 0
    /\ result = "none"
    /\ cache = NoFiles
    /\ db = EmptyDB
    /\ outcomes = <<>>
    /\ stored = <<>>
    /\ lastReplace = NoReplace
    /\ call = NoCall
    /\ lastUpsert = NoUpsert
    /\ saved = NoneSaved

\* Time passes between two iterations of the storing loop
PersistTick ==
    /\ pc = "persist"
    /\ clock < MaxClock
    /\ clock' = clock + 1
    /\ UNCHANGED <<runVars, db, repoLog>>

\* One iteration of the storing loop of ScrapeAndStoreDetails, the context not done
\* and no statement failing for a reason outside the store
PersistDetail ==
    /\ pc = "persist"
    /\ call.n < MaxCalls
    /\ \E detail \in Records :
         /\ db' = StoreOne(Session(db, NoFault, FALSE, clock), detail).db
         /\ call' = [op |-> "StoreOne", n |-> call.n + 1, detail |-> detail,
                     prev |-> IF call.op = "StoreOne" THEN call.detail ELSE Nil,
                     before |-> db]
    /\ UNCHANGED <<runVars, clock, lastUpsert, saved>>

PersistNext ==
    \/ PersistTick
    \/ PersistDetail

PersistSpec ==
    PersistInit /\ [][PersistNext]_vars

\* ------------------------------------------------------- statistics extraction
StatsInit ==
    /\ pc = "stats"
    /\ clock = 0
    /\ useCache = FALSE
    /\ expiredIn = "none"
    /\ links = <<>>
    /\ i = 1
    /\ allDetails = <<>>
    /\ cachedCount = 0
    /\ scrapedCount = 0
    /\ j = 1
    /\ successCount = 0
    /\ errorCount = 0
    /\ result = "none"
    /\ cache = NoFiles
    /\ db = EmptyDB
    /\ outcomes = <<>>
    /\ stored = <<>>
    /\ lastReplace = NoReplace
    /\ \E u \in URLs, failing \in SUBSET StatSteps :
         \E page \in Site(u) :
            call = [op |-> "none", n |-> 0, url |-> u, page |-> page,
                    failing |-> failing]
    /\ lastUpsert = NoUpsert
    /\ saved = NoneSaved

\* A call of ScrapeSchoolDetail in which chromedp.Run succeeds
ScrapeOne ==
    /\ pc = "stats"
    /\ call.op = "none"
    /\ \E res \in {ScrapeWithFailures(call.url, call.page, clock, call.failing)} :
         call' = [op |-> "ScrapeSchoolDetail", n |-> 1, url |-> call.url,
                  page |-> call.page, failing |-> call.failing,
                  details |-> res.details, attempted |-> res.attempted]
    /\ UNCHANGED <<notCacheVars, cache, saved>>

StatsSpec ==
    StatsInit /\ [][ScrapeOne]_vars

\* ------------------------------------------------------- normalizer and name calls
\* The inputs of the calls: language and absence tables of up to MaxTableRows rows,
\* combined name labels of up to MaxNameLen symbols
MaxTableRows ==
    4

MaxNameLen ==
    9

LanguageRowInputs ==
    {<<<<"1", ".", "2", "3", "4">>, <<"5">>, <<"6">>, <<"1", "1">>,
       <<"4", "5", ",", "6", " ", "%">>>>,
     <<<<"Gesamt">>, <<"w">>, <<"m">>, <<"ndH">>, <<"%">>>>,
     <<<<"9">>, <<"8">>, <<"7">>, <<"6">>>>}

AbsenceRowInputs ==
    {<<<<"S", "c", "h", "u", "l", "e">>, <<"5", ",", "5">>, <<"1">>>>,
     <<<<"S", "c", "h", "u", "l", "e">>, <<"9">>>>,
     <<<<"S", "c", "h", "u", "l", "a", "r", "t">>, <<"6">>, <<"2">>>>,
     <<<<"R", "e", "g", "i", "o", "n">>, <<"7">>, <<"3">>>>,
     <<<<"B", "e", "r", "l", "i", "n">>, <<"8">>, <<"4">>>>,
     <<<<"R", "e", "g", "i", "o", "n", " ", "B", "e", "r", "l", "i", "n">>,
       <<"1", "0">>, <<"1", "1">>>>,
     <<<<"J", "a", "h", "r">>, <<"1", "2">>, <<"1", "3">>>>}

NameInputs ==
    SeqsUpTo({"A", " ", "-"}, MaxNameLen)

PureInputs ==
    {[op |-> "none", n |-> 0, fn |-> "NormalizeLanguageTable", table |-> table] :
        table \in {Nil} \cup {StatisticTable(<<>>, rows) :
                                 rows \in SeqsUpTo(LanguageRowInputs, MaxTableRows)}}
    \cup
    {[op |-> "none", n |-> 0, fn |-> "NormalizeAbsenceTable", table |-> table] :
        table \in {Nil} \cup {StatisticTable(<<>>, rows) :
                                 rows \in SeqsUpTo(AbsenceRowInputs, MaxTableRows)}}
    \cup
    {[op |-> "none", n |-> 0, fn |-> "parseSchoolNameAndNumber", fullName |-> name] :
        name \in NameInputs}

PureInit ==
    /\ pc = "pure"
    /\ clock = 0
    /\ useCache = FALSE
    /\ expiredIn = "none"
    /\ links = <<>>
    /\ i = 1
    /\ allDetails = <<>>
    /\ cachedCount = 0
    /\ scrapedCount = 0
    /\ j = 1
    /\ successCount = 0
    /\ errorCount = 0
    /\ result = "none"
    /\ cache = NoFiles
    /\ db = EmptyDB
    /\ outcomes = <<>>
    /\ stored = <<>>
    /\ lastReplace = NoReplace
    /\ call \in PureInputs
    /\ lastUpsert = NoUpsert
    /\ saved = NoneSaved

\* A call of NormalizeLanguageTable for school 01Y01
CallNormalizeLanguage ==
    /\ pc = "pure"
    /\ call.op = "none"
    /\ call.fn = "NormalizeLanguageTable"
    /\ call' = [op |-> call.fn, n |-> 1, table |-> call.table,
                stat |-> NormalizeLanguageTable(<<"01Y01">>, call.table, clock)]
    /\ UNCHANGED <<notCacheVars, cache, saved>>

\* A call of NormalizeAbsenceTable for school 01Y01
CallNormalizeAbsence ==
    /\ pc = "pure"
    /\ call.op = "none"
    /\ call.fn = "NormalizeAbsenceTable"
    /\ call' = [op |-> call.fn, n |-> 1, table |-> call.table,
                stat |-> NormalizeAbsenceTable(<<"01Y01">>, call.table, clock)]
    /\ UNCHANGED <<notCacheVars, cache, saved>>

\* A call of parseSchoolNameAndNumber
CallParseName ==
    /\ pc = "pure"
    /\ call.op = "none"
    /\ call.fn = "parseSchoolNameAndNumber"
    /\ call' = [op |-> call.fn, n |-> 1, fullName |-> call.fullName,
                parsed |-> parseSchoolNameAndNumber(call.fullName)]
    /\ UNCHANGED <<notCacheVars, cache, saved>>

PureNext ==
    \/ CallNormalizeLanguage
    \/ CallNormalizeAbsence
    \/ CallParseName

PureSpec ==
    PureInit /\ [][PureNext]_vars

\* ------------------------------------------------------- overlapping runs
\* Two runs (a scheduled and a manual one, or two scheduled ones) call
\* SaveCitizenshipStats for school 01Y01 at the same time, and a reader calls
\* GetCitizenshipStats.  Each ExecContext is one statement of its own; nothing in the
\* repository orders the statements of one call against those of another.
Overlapped ==
    <<"01Y01">>

\* The rows a run saves: the normalized citizenship table of a page, scraped at `now`
RunStats(now) ==
    {NormalizeCitizenshipTable(Overlapped, p.CitizenshipTable, now) : p \in Pages}

\* A call of SaveCitizenshipStats that has executed `at` of its statements
NewRun(stats) ==
    [stats |-> stats, at |-> 0, err |-> FALSE]

RunOver(run) ==
    run.err \/ run.at > Len(run.stats)

OverlapInit ==
    /\ pc = "overlap"
    /\ clock = 0
    /\ useCache = FALSE
    /\ expiredIn = "none"
    /\ links = <<>>
    /\ i = 1
    /\ allDetails = <<>>
    /\ cachedCount = 0
    /\ scrapedCount = 0
    /\ j = 1
    /\ successCount = 0
    /\ errorCount = 0
    /\ result = "none"
    /\ cache = NoFiles
    /\ db \in {EmptyDB, StoreOne(Session(EmptyDB, NoFault, FALSE, 0), PriorDetail).db}
    /\ outcomes = <<>>
    /\ stored = <<>>
    /\ lastReplace = NoReplace
    /\ \E first \in RunStats(0), second \in RunStats(1) :
         call = [op |-> "overlap", n |-> 0, before |-> {},
                 runs |-> <<NewRun(first), NewRun(second)>>, read |-> Nil]
    /\ lastUpsert = NoUpsert
    /\ saved = NoneSaved

\* The next statement of SaveCitizenshipStats call k: the DELETE, then one INSERT per
\* row, up to the first error
RunStatementOf(k) ==
    LET run == call.runs[k]
        st == Session(db, NoFault, FALSE, clock)
        next == IF run.at = 0
                THEN ExecDelete(st, "school_citizenship_stats", run.stats[1].SchoolNumber)
                ELSE InsertCitizenshipStats(st, <<run.stats[run.at]>>)
    IN  /\ pc = "overlap"
        /\ ~RunOver(run)
        /\ db' = next.db
        /\ call' = [call EXCEPT !.n = @ + 1,
                                !.before = IF call.n = 0
                                           THEN db.school_citizenship_stats ELSE @,
                                !.runs[k] = [run EXCEPT !.at = @ + 1,
                                                        !.err = next.err]]
        /\ UNCHANGED <<runVars, clock, lastUpsert, saved>>

RunStatement ==
    \E k \in 1..2 : RunStatementOf(k)

\* GetCitizenshipStats for the school while the runs are under way: the rows it
\* returns, and the runs that were between their DELETE and their last INSERT
ReadStats ==
    /\ pc = "overlap"
    /\ call.read = Nil
    /\ call' = [call EXCEPT !.read =
                    [rows |-> RowsOf(db, "school_citizenship_stats", Overlapped),
                     during |-> {k \in 1..2 : call.runs[k].at > 0
                                              /\ ~RunOver(call.runs[k])}]]
    /\ UNCHANGED <<runVars, clock, db, lastUpsert, saved>>

OverlapNext ==
    \/ RunStatement
    \/ ReadStats

OverlapSpec ==
    OverlapInit /\ [][OverlapNext]_vars

\* ------------------------------------------------------- properties
\* The links whose harvest failed, by index
FailedLinks ==
    {m \in 1..Len(outcomes) : outcomes[m].kind = "failed"}

\* The urls of the links that gave a record, in listing order
RecordUrls ==
    LET kept == SelectSeq(outcomes, LAMBDA o : o.kind # "failed")
    IN  [m \in 1..Len(kept) |-> kept[m].url]

\* The listing was fetched and the harvest loop has returned
Harvested ==
    pc = "store" \/ (pc = "done" /\ result # "failed to scrape school details")

\* The "total" of the "scraping complete" log line
LoggedTotal ==
    Len(allDetails)

\* C1: when the harvest of a link fails the loop goes on: once ScrapeSchoolDetails
\* has returned, every link of the listing was processed in order, and the returned
\* list holds exactly the records of the links that did not fail, in order.
C1_FailureIsolation ==
    Harvested =>
        /\ Len(outcomes) = Len(links)
        /\ \A m \in 1..Len(links) : outcomes[m].url = links[m]
        /\ [m \in 1..Len(allDetails) |-> allDetails[m].SchoolURL] = RecordUrls

\* A link whose live harvest failed on a live context, followed by a harvested link
C1_Witness ==
    /\ Harvested
    /\ \E m \in 1..Len(outcomes), n \in 1..Len(outcomes) :
          /\ m < n
          /\ outcomes[m].kind = "failed" /\ ~outcomes[m].done
          /\ outcomes[n].kind = "scraped"
    /\ Len(allDetails) = Len(links) - 1

\* C2 (as claimed): once a harvest has failed on a done run context, no later link
\* is attempted: the failing link is the last entry of the loop's log.
C2_NoAttemptAfterDeadline ==
    \A m \in 1..Len(outcomes) :
        (outcomes[m].kind = "failed" /\ outcomes[m].done) => m = Len(outcomes)

\* C3 (as claimed): when the run context expires during the harvest loop, the run
\* ends without error and every accumulated record was upserted by it.
C3_DeadlineKeepsRecords ==
    (pc = "done" /\ expiredIn = "loop") =>
        /\ result = "nil"
        /\ \A m \in 1..Len(allDetails) :
              \E r \in db.school_details :
                 /\ r.school_number = allDetails[m].SchoolNumber
                 /\ r.updated_at = clock

\* No statement of the storing loop failed
AllWritesSucceeded ==
    /\ Len(stored) = Len(allDetails)
    /\ \A m \in 1..Len(stored) : ~stored[m].err /\ ~stored[m].warned

\* C4 (as claimed): N links, k failed harvests, every database write succeeds:
\* N-k records harvested and persisted, summary total = N and errors = k, no error
\* returned.
C4_SummaryCountsFailures ==
    (pc = "done" /\ Harvested /\ AllWritesSucceeded) =>
        /\ Len(allDetails) = Len(links) - Cardinality(FailedLinks)
        /\ successCount = Len(links) - Cardinality(FailedLinks)
        /\ LoggedTotal = Len(links)
        /\ errorCount = Cardinality(FailedLinks)
        /\ result = "nil"

\* C5: a run of ScrapeAndStoreDetails that has started reaches its return.
C5_RunCompletes ==
    (pc = "links") ~> (pc = "done")

\* A completed run that met a failed harvest, an expired context and a failed write
C5_Witness ==
    /\ pc = "done"
    /\ FailedLinks # {}
    /\ expiredIn = "store"
    /\ \E m \in 1..Len(stored) : stored[m].err

\* The four statistic tables
StatTables ==
    {"school_citizenship_stats", "school_language_stats", "school_residence_stats",
     "school_absence_stats"}

\* The storing loop has just persisted record m without an error or a warning
JustPersisted(m) ==
    /\ pc = "store"
    /\ m = Len(stored)
    /\ j = m + 1
    /\ ~stored[m].err /\ ~stored[m].warned
    /\ allDetails[m].SchoolNumber # <<>>

\* C6 (as claimed): once a record with non-empty school number X is persisted, each
\* statistic table holds for X exactly the rows normalized from the record's table
\* of that category, also when that table is absent or normalizes to nothing.
C6_StatisticsFullyReplaced ==
    \A m \in 1..Len(allDetails) :
        JustPersisted(m) =>
            \A t \in StatTables :
                RowsOf(db, t, allDetails[m].SchoolNumber) =
                    StatRows(t, allDetails[m], clock)

\* C7 (as claimed): at the end of a run, for every school and replaced statistic
\* table the stored rows are the complete set before the latest replace or the
\* complete set given to it.
C7_ReplaceAllOrNothing ==
    pc = "done" =>
        \A t \in ReplacedTables, x \in SchoolNumbers :
            lastReplace[t][x] # Nil =>
                RowsOf(db, t, x) \in {lastReplace[t][x].old, lastReplace[t][x].new}

\* C10 (amended): a failed database write for one record does not stop the storing
\* loop: every harvested record is attempted, and the error count at the end is the
\* number of records whose detail Upsert failed; a failed statistic save is logged
\* as a warning and the record counts as a success.
C10_UpsertFailuresCounted ==
    (pc = "done" /\ Harvested) =>
        /\ Len(stored) = Len(allDetails)
        /\ errorCount = Cardinality({m \in 1..Len(stored) : stored[m].err})
        /\ successCount = Cardinality({m \in 1..Len(stored) : ~stored[m].err})
        /\ result = IF errorCount > 0 THEN "completed with errors" ELSE "nil"

\* A run on a live context whose first record's Upsert failed and whose second
\* record was upserted with a failed statistic save
C10_Witness ==
    /\ pc = "done"
    /\ expiredIn = "none"
    /\ Len(stored) = 2
    /\ stored[1].err
    /\ ~stored[2].err /\ stored[2].warned
    /\ errorCount = 1

\* C10 (as claimed): the error count at the end is the number of records for which
\* a database write failed, in the detail Upsert or in a statistic save.
C10_AllWriteFailuresCounted ==
    (pc = "done" /\ Harvested) =>
        errorCount = Cardinality({m \in 1..Len(stored) :
                                      stored[m].err \/ stored[m].warned})

\* Every row of stats carries the school number of the first
SameSchool(stats) ==
    \A k \in 1..Len(stats) : stats[k].SchoolNumber = stats[1].SchoolNumber

\* The latest call was a Save of a non-empty slice of one school with distinct
\* sub-keys (the field subkey of the rows), and it returned nil
Replacing(op, subkey) ==
    /\ call.op = op
    /\ ~call.err
    /\ Len(call.stats) > 0
    /\ SameSchool(call.stats)
    /\ \A k, l \in 1..Len(call.stats) :
          call.stats[k][subkey] = call.stats[l][subkey] => k = l

\* What the replace of table t leaves: for the school exactly the given rows, for
\* every other school the rows it had, the other tables as they were
ReplacedExactly(t, rows) ==
    /\ RowsOf(db, t, call.stats[1].SchoolNumber) = rows
    /\ {r \in db[t] : r.school_number # call.stats[1].SchoolNumber}
         = {r \in call.before[t] : r.school_number # call.stats[1].SchoolNumber}
    /\ \A other \in DOMAIN db \ {t} : db[other] = call.before[other]

\* C8: SaveCitizenshipStats (SaveResidenceStats) called with a non-empty slice whose
\* rows all carry school number X and have distinct citizenships (districts) leaves
\* for X exactly those rows and leaves the rows of every other school unchanged.
C8_ReplaceFrame ==
    /\ Replacing("SaveCitizenshipStats", "Citizenship") =>
          ReplacedExactly("school_citizenship_stats",
              {CitizenshipRow(call.stats[k], call.now) : k \in 1..Len(call.stats)})
    /\ Replacing("SaveResidenceStats", "District") =>
          ReplacedExactly("school_residence_stats",
              {ResidenceRow(call.stats[k], call.now) : k \in 1..Len(call.stats)})

\* A replace for a school that had other rows, beside rows of another school
C8_Witness ==
    /\ Replacing("SaveCitizenshipStats", "Citizenship")
    /\ \E r \in call.before.school_citizenship_stats :
          /\ r.school_number = call.stats[1].SchoolNumber
          /\ r \notin db.school_citizenship_stats
    /\ \E r \in call.before.school_citizenship_stats :
          r.school_number # call.stats[1].SchoolNumber

\* The columns of a school_details row that an upsert sets on conflict, the
\* updated_at stamp aside
Mutable(row) ==
    [f \in DOMAIN row \ {"created_at", "updated_at"} |-> row[f]]

\* C9: after any sequence of Upsert calls school_details holds at most one row per
\* school number, and the name, free-text fields, flag, raw tables and scraped_at of
\* that row are those of the latest Upsert for the number that returned nil.
C9_UpsertFullReplace ==
    /\ \A r1, r2 \in db.school_details :
          r1.school_number = r2.school_number => r1 = r2
    /\ \A r \in db.school_details :
          /\ lastUpsert[r.school_number] # Nil
          /\ Mutable(r) = Mutable(DetailRow(lastUpsert[r.school_number], 0))

\* An Upsert that returned nil for a school whose row held another name
C9_Witness ==
    /\ call.op = "Upsert"
    /\ ~call.err
    /\ \E old \in call.before.school_details, new \in db.school_details :
          /\ old.school_number = call.detail.SchoolNumber
          /\ new.school_number = call.detail.SchoolNumber
          /\ old.school_name # new.school_name
          /\ new.created_at < new.updated_at

\* C11: when getSchoolLinks fails, ScrapeAndStoreDetails returns an error, no link
\* has been cache-probed or harvested, no record is stored, and the store and the
\* cache files are what they were.
C11_ListingFailureIsFatal ==
    [][(pc = "links" /\ pc' = "done") =>
          /\ result' \notin {"none", "nil"}
          /\ db' = db
          /\ cache' = cache
          /\ outcomes' = <<>>
          /\ allDetails' = <<>>
          /\ stored' = <<>>]_vars

\* A run whose listing failed over a store and a cache that hold an earlier harvest
C11_Witness ==
    /\ pc = "done"
    /\ result = "failed to scrape school details"
    /\ db.school_details # {}
    /\ \E u \in URLs : cache[getCachePath(u)] # NoFile

RecordIndex(m) ==
    Cardinality({n \in 1..m : outcomes[n].kind # "failed"})

\* C13: a cache entry that cannot be read or deserialized is a miss, not an error:
\* the link is harvested live, and the loop goes on to the end of the listing.
C13_CorruptEntryIsMiss ==
    /\ \A m \in 1..Len(outcomes) :
          outcomes[m].entry = "corrupt" => outcomes[m].kind \in {"scraped", "failed"}
    /\ (Harvested /\ \E m \in 1..Len(outcomes) : outcomes[m].entry = "corrupt") =>
          Len(outcomes) = Len(links)

\* A run that met a damaged entry, scraped its link and went on to the next link
C13_Witness ==
    /\ Harvested
    /\ useCache
    /\ Len(outcomes) = 2
    /\ outcomes[1].entry = "corrupt"
    /\ outcomes[1].kind = "scraped"
    /\ allDetails[1].SchoolURL = outcomes[1].url

\* C14: with the cache enabled, a link whose entry is present and readable when it
\* is probed is a cache hit: it is not passed to ScrapeSchoolDetail, and its record
\* in the returned list is the one read from the entry.
C14_HitIsNotFetched ==
    useCache =>
        \A m \in 1..Len(outcomes) :
            outcomes[m].entry = "ok" =>
                /\ outcomes[m].kind = "hit"
                /\ ~outcomes[m].slept
                /\ allDetails[RecordIndex(m)] = loadFromCache(cache, outcomes[m].url)

\* A run served the record of an earlier run from the cache, while the page has
\* changed since
C14_Witness ==
    /\ Harvested
    /\ useCache
    /\ \E m \in 1..Len(outcomes) :
          /\ outcomes[m].entry = "ok"
          /\ outcomes[m].kind = "hit"
          /\ allDetails[RecordIndex(m)] = [PriorDetail EXCEPT !.ScrapedAt = 0]
    /\ scrapedCount = 1
    /\ cachedCount = 1

\* C15: the pacing sleep is executed only at the end of an iteration that scraped
\* its link live: never after a cache hit, so a run of cache hits only does not
\* sleep.
C15_PacingOnlyAfterScrape ==
    \A m \in 1..Len(outcomes) :
        outcomes[m].slept => outcomes[m].kind = "scraped"

\* A run of two links, one served from the cache without a sleep, one scraped
\* and followed by the sleep
C15_Witness ==
    /\ Harvested
    /\ \E m, n \in 1..Len(outcomes) :
          /\ outcomes[m].kind = "hit" /\ ~outcomes[m].slept
          /\ outcomes[n].kind = "scraped" /\ outcomes[n].slept

\* The iterations that called ScrapeSchoolDetail
LiveAttempts ==
    {m \in 1..Len(outcomes) : outcomes[m].kind \in {"scraped", "failed"}}

\* C16 (as claimed): between two consecutive live scrape attempts of a run the
\* pacing sleep is executed at least once, whatever the outcome of the earlier one.
C16_PacedBetweenLiveAttempts ==
    \A m, n \in LiveAttempts :
        (m < n /\ \A k \in LiveAttempts : ~(m < k /\ k < n)) =>
            \E k \in m..(n - 1) : outcomes[k].slept

\* C17 (as claimed): every live harvest of a page yields a record, never an error.
C17_HarvestNeverFails ==
    \A m \in LiveAttempts : outcomes[m].kind = "scraped"

\* C17: when chromedp.Run fails for a page (navigation, or the evaluation of the
\* scalar fields), ScrapeSchoolDetail returns an error and no record: the link adds
\* nothing to the returned list.  When it succeeds the record is returned, with an
\* absent table for each statistic that was not found on the page.
C17_FailedRunYieldsNoRecord ==
    /\ \A m \in 1..Len(outcomes) :
          outcomes[m].run = "error" => outcomes[m].kind = "failed"
    /\ Len(allDetails) = Cardinality({m \in 1..Len(outcomes) : outcomes[m].run # "error"})
    /\ \A m \in 1..Len(outcomes) :
          outcomes[m].run = "ok" =>
              \E page \in Site(outcomes[m].url) :
                  \A t \in {"CitizenshipTable", "LanguageTable", "ResidenceTable",
                             "AbsenceTable"} :
                      allDetails[RecordIndex(m)][t] = page[t]

\* A run in which one page failed and gave no record, and another page gave a
\* record with absent tables
C17_Witness ==
    /\ Harvested
    /\ Len(outcomes) = 2
    /\ outcomes[1].run = "error"
    /\ outcomes[2].run = "ok"
    /\ Len(allDetails) = 1
    /\ allDetails[1].SchoolURL = outcomes[2].url
    /\ allDetails[1].LanguageTable = Nil
    /\ allDetails[1].CitizenshipTable # Nil

\* The table element of a fragment that has one, as written
TableOf(tableHTML) ==
    findTable(DocumentNode(tableHTML))

\* C18 (as claimed): parseTableHTML returns nil when the fragment has no table
\* element and when the table has no row with a cell; it never returns a table with
\* no headers and no rows.
C18_NoRowsIsAbsent ==
    call.op = "parseTableHTML" =>
        /\ TableOf(call.tableHTML) = Nil => call.table = Nil
        /\ call.table # Nil => call.table.Headers # <<>> \/ call.table.Rows # <<>>

\* The rows with a cell of a section, as lists of cell texts
RECURSIVE RowsWithCells(_)
RowsWithCells(rows) ==
    IF rows = <<>> THEN <<>>
    ELSE (IF CellsOf(Head(rows).Children) # <<>>
          THEN <<CellsOf(Head(rows).Children)>> ELSE <<>>)
         \o RowsWithCells(Tail(rows))

\* C19 (as claimed): for a table of a thead with several rows followed by a tbody,
\* Headers are the cells of the first thead row, no thead row is among the data
\* rows, and the data rows are the tbody rows in document order.
C19_FirstTheadRowKept ==
    (/\ call.op = "parseTableHTML"
     /\ TableOf(call.tableHTML) # Nil
     /\ Len(TableOf(call.tableHTML).Children) = 2
     /\ IsElement(TableOf(call.tableHTML).Children[1], "thead")
     /\ IsElement(TableOf(call.tableHTML).Children[2], "tbody")
     /\ Len(RowsWithCells(TableOf(call.tableHTML).Children[1].Children)) >= 2) =>
        LET thead == RowsWithCells(TableOf(call.tableHTML).Children[1].Children)
            tbody == RowsWithCells(TableOf(call.tableHTML).Children[2].Children)
        IN  /\ call.table.Headers = thead[1]
            /\ call.table.Rows = tbody

\* A store without its created_at and updated_at columns
Content(store) ==
    [t \in DOMAIN store |->
        {[c \in DOMAIN r \ {"created_at", "updated_at"} |-> r[c]] : r \in store[t]}]

\* A normalized record without ScrapedAt
Unstamped(stat) ==
    IF stat = Nil THEN Nil
    ELSE [c \in DOMAIN stat \ {"ScrapedAt"} |-> stat[c]]

\* A list of normalized records without their ScrapedAt
UnstampedAll(stats) ==
    [k \in 1..Len(stats) |-> Unstamped(stats[k])]

\* Normalizing the four tables of detail at two times gives the same records apart
\* from ScrapedAt
SameNormalized(detail) ==
    \A t1, t2 \in 0..MaxClock :
        /\ UnstampedAll(NormalizeCitizenshipTable(detail.SchoolNumber,
                                                  detail.CitizenshipTable, t1))
             = UnstampedAll(NormalizeCitizenshipTable(detail.SchoolNumber,
                                                      detail.CitizenshipTable, t2))
        /\ Unstamped(NormalizeLanguageTable(detail.SchoolNumber,
                                            detail.LanguageTable, t1))
             = Unstamped(NormalizeLanguageTable(detail.SchoolNumber,
                                                detail.LanguageTable, t2))
        /\ UnstampedAll(NormalizeResidenceTable(detail.SchoolNumber,
                                                detail.ResidenceTable, t1))
             = UnstampedAll(NormalizeResidenceTable(detail.SchoolNumber,
                                                    detail.ResidenceTable, t2))
        /\ Unstamped(NormalizeAbsenceTable(detail.SchoolNumber,
                                           detail.AbsenceTable, t1))
             = Unstamped(NormalizeAbsenceTable(detail.SchoolNumber,
                                               detail.AbsenceTable, t2))

\* C20: normalizing the raw tables of a record again gives the same records apart
\* from scraped_at, and persisting a record that was just persisted leaves the detail
\* table and the four statistic tables with the same rows, apart from created_at and
\* updated_at.
C20_PersistTwiceIsOnce ==
    call.op = "StoreOne" =>
        /\ SameNormalized(call.detail)
        /\ call.prev = call.detail =>
              /\ Content(db) = Content(call.before)
              /\ \A t \in DOMAIN db : Cardinality(db[t]) = Cardinality(call.before[t])

\* School 01Y01 with its four statistics was persisted twice in a row, at two
\* different times, after another school
C20_Witness ==
    /\ call.op = "StoreOne"
    /\ call.n = 3
    /\ call.prev = call.detail
    /\ call.detail = ScrapeSchoolDetail(URL1, PageAlpha, 0)
    /\ db # call.before
    /\ Cardinality(db.school_details) = 2
    /\ Cardinality(db.school_citizenship_stats) >= 3
    /\ db.school_absence_stats # {}

\* The iterations of the harvest loop whose saveToCache changed the cache file of url
\* u, in full or in part
FileWrites(u) ==
    {m \in 1..Len(outcomes) :
        outcomes[m].url = u /\ outcomes[m].wrote \in {"written", "truncated"}}

\* C21 (as claimed): within a run the cache file of a url is written at most once.
C21_KeyWrittenOnce ==
    \A u \in URLs : Cardinality(FileWrites(u)) <= 1

\* C21: within a run at most one write of a url's cache file completes, also when
\* the listing repeats the url; saveToCache is called only in an iteration that
\* scraped the url live; an entry that was readable when probed is not written.
\* (A write that failed can be followed by another write of the same key.)
C21_KeyWrittenOnceInFull ==
    /\ \A u \in URLs :
          Cardinality({m \in FileWrites(u) : outcomes[m].wrote = "written"}) <= 1
    /\ \A m \in 1..Len(outcomes) :
          /\ outcomes[m].wrote # "none" => outcomes[m].kind = "scraped"
          /\ (useCache /\ outcomes[m].entry = "ok") => outcomes[m].wrote = "none"

\* A listing that names the same url twice: scraped and written at the first
\* occurrence, served from the cache at the second
C21_Witness ==
    /\ Harvested
    /\ Len(outcomes) = 2
    /\ outcomes[1].url = outcomes[2].url
    /\ outcomes[1].kind = "scraped"
    /\ outcomes[1].wrote = "written"
    /\ outcomes[2].kind = "hit"
    /\ outcomes[2].wrote = "none"

\* The fields of a record that scrapeStatistics does not assign
ScalarFields ==
    {"SchoolNumber", "SchoolName", "SchoolURL", "Languages", "Courses", "Offerings",
     "AvailableAfter4thGrade", "AdditionalInfo", "Equipment", "WorkingGroups",
     "Partners", "Differentiation", "LunchInfo", "DualLearning", "ScrapedAt"}

\* C22: whatever steps of scrapeStatistics fail, ScrapeSchoolDetail returns the record
\* with the scalar fields, name, school number and flag it had before; when the
\* navigation probe succeeded the four tables are attempted in the order citizenship,
\* language, residence, absence, each table absent when its own step failed and else
\* as the page shows it, whatever happened to the others.
C22_StatisticsBestEffort ==
    call.op = "ScrapeSchoolDetail" =>
        /\ \A f \in ScalarFields :
              call.details[f] = BasicInfo(call.url, call.page, clock)[f]
        /\ "probe" \notin call.failing =>
              /\ call.attempted = TabOrder
              /\ \A k \in 1..Len(TabOrder) :
                    call.details[TabOrder[k]] =
                        IF TabOrder[k] \in call.failing THEN Nil
                        ELSE call.page[TabOrder[k]]
        /\ "probe" \in call.failing =>
              /\ call.attempted = <<>>
              /\ \A k \in 1..Len(TabOrder) : call.details[TabOrder[k]] = Nil

\* The click, the citizenship table and the language table failed on a page with
\* four tables: the record has the other two tables and its scalar fields
C22_Witness ==
    /\ call.op = "ScrapeSchoolDetail"
    /\ call.failing = {"click", "CitizenshipTable", "LanguageTable"}
    /\ call.page = PageAlpha
    /\ call.details.SchoolNumber = <<"01Y01">>
    /\ call.details.AvailableAfter4thGrade
    /\ call.details.CitizenshipTable = Nil
    /\ call.details.ResidenceTable = PageAlpha.ResidenceTable
    /\ call.details.AbsenceTable = PageAlpha.AbsenceTable

\* C23: NormalizeLanguageTable returns nil for a nil table, a table of fewer than 2
\* rows, and a last row of fewer than 5 cells; otherwise one record whose five numbers
\* are the cells 1 to 5 of the last row, the same record a table of the last row alone
\* (twice) gives.
C23_LanguageFromLastRow ==
    call.op = "NormalizeLanguageTable" =>
        LET absent == IF call.table = Nil THEN TRUE
                      ELSE IF Len(call.table.Rows) < 2 THEN TRUE
                      ELSE Len(call.table.Rows[Len(call.table.Rows)]) < 5
        IN  IF absent THEN call.stat = Nil
            ELSE LET last == call.table.Rows[Len(call.table.Rows)]
                 IN  /\ call.stat # Nil
                     /\ call.stat.SchoolNumber = <<"01Y01">>
                     /\ call.stat.TotalStudents = parseInt(last[1])
                     /\ call.stat.NDHFemaleStudents = parseInt(last[2])
                     /\ call.stat.NDHMaleStudents = parseInt(last[3])
                     /\ call.stat.NDHTotal = parseInt(last[4])
                     /\ call.stat.NDHPercentage = parseFloat(last[5])
                     /\ call.stat = NormalizeLanguageTable(<<"01Y01">>,
                                        StatisticTable(<<>>, <<last, last>>), clock)

\* A table of a short row, a label row and the data row: 1234 students, 5 + 6 = 11
\* of them of another first language, 45.6 %
C23_Witness ==
    /\ call.op = "NormalizeLanguageTable"
    /\ call.table # Nil
    /\ Len(call.table.Rows) = 3
    /\ Len(call.table.Rows[1]) = 4
    /\ call.table.Rows[2][1] = <<"Gesamt">>
    /\ call.stat # Nil
    /\ call.stat.TotalStudents = 1234
    /\ call.stat.NDHFemaleStudents = 5
    /\ call.stat.NDHMaleStudents = 6
    /\ call.stat.NDHTotal = 11
    /\ call.stat.NDHPercentage = [mant |-> 456, dec |-> 1]

\* The four pairs of rate fields, in the order of the cases: school, school type,
\* region, Berlin
AbsenceFields ==
    <<[rate |-> "SchoolAbsenceRate", unexcused |-> "SchoolUnexcusedRate"],
      [rate |-> "SchoolTypeAbsenceRate", unexcused |-> "SchoolTypeUnexcusedRate"],
      [rate |-> "RegionAbsenceRate", unexcused |-> "RegionUnexcusedRate"],
      [rate |-> "BerlinAbsenceRate", unexcused |-> "BerlinUnexcusedRate"]>>

\* Whether the lowercased label of a row matches marker m
LabelMatches(row, m) ==
    LET label == TrimSpace(ToLower(row[1]))
        schulart == Contains(label, <<"s", "c", "h", "u", "l", "a", "r", "t">>)
    IN  CASE m = 1 -> Contains(label, <<"s", "c", "h", "u", "l", "e">>) /\ ~schulart
          [] m = 2 -> schulart
          [] m = 3 -> Contains(label, <<"r", "e", "g", "i", "o", "n">>)
          [] m = 4 -> Contains(label, <<"b", "e", "r", "l", "i", "n">>)

\* The pair of fields m of stat holds the rates of the last row among rows ks of the
\* table, and zeros when there is no such row
PairFromLast(stat, rows, m, ks) ==
    IF ks = {}
    THEN /\ stat[AbsenceFields[m].rate] = Float(0, 0)
         /\ stat[AbsenceFields[m].unexcused] = Float(0, 0)
    ELSE LET row == rows[CHOOSE k \in ks : \A l \in ks : l <= k]
         IN  /\ Len(row) >= 3
             /\ stat[AbsenceFields[m].rate] = parseFloat(row[2])
             /\ stat[AbsenceFields[m].unexcused] = parseFloat(row[3])

AbsenceAbsent(table) ==
    IF table = Nil THEN TRUE ELSE Len(table.Rows) < 4

\* C24 (as claimed): nil for a nil table or one of fewer than 4 rows; otherwise every
\* row whose label matches a marker sets that marker's pair of rates, and a pair
\* without a matching row is 0.
C24_EveryMatchingRowSets ==
    call.op = "NormalizeAbsenceTable" =>
        IF AbsenceAbsent(call.table) THEN call.stat = Nil
        ELSE /\ call.stat # Nil
             /\ \A m \in 1..4 :
                   PairFromLast(call.stat, call.table.Rows, m,
                                {k \in 1..Len(call.table.Rows) :
                                    /\ Len(call.table.Rows[k]) >= 1
                                    /\ LabelMatches(call.table.Rows[k], m)})

\* C24: nil for a nil table or one of fewer than 4 rows; otherwise one record in
\* which each pair of rates comes from the last row of at least 3 cells whose label
\* matches the pair's marker and no marker earlier in the order school, school type,
\* region, Berlin; a pair without such a row is 0.  Rows of fewer than 3 cells and
\* rows matching no marker change nothing.
C24_FirstMarkerOfLongRows ==
    call.op = "NormalizeAbsenceTable" =>
        IF AbsenceAbsent(call.table) THEN call.stat = Nil
        ELSE /\ call.stat # Nil
             /\ call.stat.SchoolNumber = <<"01Y01">>
             /\ \A m \in 1..4 :
                   PairFromLast(call.stat, call.table.Rows, m,
                                {k \in 1..Len(call.table.Rows) :
                                    /\ Len(call.table.Rows[k]) >= 3
                                    /\ LabelMatches(call.table.Rows[k], m)
                                    /\ \A e \in 1..(m - 1) :
                                          ~LabelMatches(call.table.Rows[k], e)})

\* A table of a school row, a school row of two cells, a row naming region and
\* Berlin, and a row of another label: school 5.5 / 1, region 10 / 11, the rest 0
C24_Witness ==
    /\ call.op = "NormalizeAbsenceTable"
    /\ call.table # Nil
    /\ Len(call.table.Rows) = 4
    /\ Len(call.table.Rows[2]) = 2
    /\ call.table.Rows[4][1] = <<"J", "a", "h", "r">>
    /\ call.stat # Nil
    /\ call.stat.SchoolAbsenceRate = [mant |-> 55, dec |-> 1]
    /\ call.stat.SchoolUnexcusedRate = [mant |-> 1, dec |-> 0]
    /\ call.stat.RegionAbsenceRate = [mant |-> 10, dec |-> 0]
    /\ call.stat.RegionUnexcusedRate = [mant |-> 11, dec |-> 0]
    /\ call.stat.BerlinAbsenceRate = [mant |-> 0, dec |-> 0]
    /\ call.stat.SchoolTypeAbsenceRate = [mant |-> 0, dec |-> 0]

\* The positions of s at which the delimiter " - " occurs
Occurrences(s) ==
    {k \in 1..Len(s) : HasPrefix(SubSeq(s, k, Len(s)), Separator)}

\* The name and number when s is cut at the delimiter that starts at position k
CutAt(s, k) ==
    <<TrimSpace(SubSeq(s, 1, k - 1)), TrimSpace(SubSeq(s, k + Len(Separator), Len(s)))>>

LastOccurrence(s) ==
    CHOOSE k \in Occurrences(s) : \A l \in Occurrences(s) : l <= k

\* C25 (as claimed): the string is cut at the last occurrence of " - "; without an
\* occurrence the trimmed string is the name and the number is empty.
C25_SplitAtLastOccurrence ==
    call.op = "parseSchoolNameAndNumber" =>
        IF Occurrences(call.fullName) = {}
        THEN call.parsed = <<TrimSpace(call.fullName), <<>>>>
        ELSE call.parsed = CutAt(call.fullName, LastOccurrence(call.fullName))

\* C25: without an occurrence of " - " the trimmed string is the name and the number
\* is empty; else the string is cut at an occurrence of " - ", which is the last one
\* whenever no two occurrences overlap (share a space), name and number trimmed.
C25_SplitAtLastDisjointOccurrence ==
    call.op = "parseSchoolNameAndNumber" =>
        IF Occurrences(call.fullName) = {}
        THEN call.parsed = <<TrimSpace(call.fullName), <<>>>>
        ELSE /\ \E k \in Occurrences(call.fullName) :
                   call.parsed = CutAt(call.fullName, k)
             /\ (\A k, l \in Occurrences(call.fullName) :
                    k < l => l - k >= Len(Separator)) =>
                   call.parsed = CutAt(call.fullName, LastOccurrence(call.fullName))

\* "A - A - A": the name is "A - A", the number "A"
C25_Witness ==
    /\ call.op = "parseSchoolNameAndNumber"
    /\ call.fullName = <<"A", " ", "-", " ", "A", " ", "-", " ", "A">>
    /\ call.parsed = <<<<"A", " ", "-", " ", "A">>, <<"A">>>>

\* The rows a run stores when it runs alone
RunRows(run) ==
    {CitizenshipRow(run.stats[k], 0) : k \in 1..Len(run.stats)}

\* C26: the statements of two overlapping SaveCitizenshipStats calls for one school
\* interleave freely, each statement on its own: at every moment the rows stored for
\* the school are rows of one of the two runs or rows from before, no two with the
\* same citizenship; a call that is not over can execute its next statement whatever
\* the other call has done.
C26_StatementsInterleave ==
    pc = "overlap" =>
        LET rows == RowsOf(db, "school_citizenship_stats", Overlapped)
        IN  /\ rows \subseteq RunRows(call.runs[1]) \cup RunRows(call.runs[2])
                                \cup (IF call.n = 0 THEN rows ELSE call.before)
            /\ \A r1, r2 \in rows : r1.citizenship = r2.citizenship => r1 = r2
            /\ \A k \in 1..2 : ~RunOver(call.runs[k]) => ENABLED RunStatementOf(k)

\* Both runs are over: the school's rows are a mix of the two runs' rows and equal
\* neither run's set, one run's INSERT failed on the unique key, and the reader saw
\* no row for the school between a DELETE and the INSERTs, where rows had been
C26_Witness ==
    /\ pc = "overlap"
    /\ RunOver(call.runs[1])
    /\ RunOver(call.runs[2])
    /\ call.runs[1].err
    /\ ~call.runs[2].err
    /\ \A k, l \in 1..Len(call.runs[1].stats) :
          call.runs[1].stats[k].Citizenship = call.runs[1].stats[l].Citizenship => k = l
    /\ \E r \in RunRows(call.runs[2]) \cap db.school_citizenship_stats :
          r.citizenship = call.runs[1].stats[call.runs[1].at - 1].Citizenship
    /\ LET rows == RowsOf(db, "school_citizenship_stats", Overlapped)
       IN  /\ rows # RunRows(call.runs[1])
           /\ rows # RunRows(call.runs[2])
           /\ rows \cap RunRows(call.runs[1]) # {}
           /\ rows \cap RunRows(call.runs[2]) # {}
    /\ call.before # {}
    /\ call.read # Nil
    /\ call.read.rows = {}
    /\ call.read.during # {}

\* C27: persistence strictly follows harvesting.  A step changes the store only in
\* the storing loop, after the harvest loop has run over the whole listing and with
\* the accumulated records fixed; the step persists record j of the accumulation
\* and goes on to record j + 1, so the records are persisted in the order they were
\* accumulated.  While a link is unprocessed the store is what it was before the run.
C27_PersistAfterHarvest ==
    [][/\ db' # db =>
            /\ pc = "store"
            /\ i > Len(links)
            /\ allDetails' = allDetails
            /\ j \in 1..Len(allDetails)
            /\ \E fault \in Faults(allDetails[j]) :
                  db' = StoreOne(Session(db, fault, ctxDone, clock), allDetails[j]).db
       /\ j' # j => pc = "store" /\ j' = j + 1 /\ i > Len(links)
       /\ pc \in {"links", "loop"} /\ i <= Len(links) => j = 1 /\ stored = <<>>]_vars

\* Two links were harvested, then both records were persisted, the first before the
\* second
C27_Witness ==
    /\ pc = "done"
    /\ Len(links) = 2
    /\ Len(allDetails) = 2
    /\ allDetails[1].SchoolNumber # allDetails[2].SchoolNumber
    /\ successCount = 2
    /\ stored = <<[err |-> FALSE, warned |-> FALSE], [err |-> FALSE, warned |-> FALSE]>>
    /\ \A m \in 1..2 : \E r \in db.school_details :
           /\ r.school_number = allDetails[m].SchoolNumber
           /\ r.updated_at = clock
           /\ r.scraped_at = allDetails[m].ScrapedAt

\* The records without a school number whose Upsert returned nil so far
EmptyIdStored ==
    {m \in 1..Len(stored) : allDetails[m].SchoolNumber = <<>> /\ ~stored[m].err}

\* C28: a record whose school number is empty is upserted into school_details
\* under the empty key and none of its statistics is written.  Once records
\* without a number were upserted, school_details holds exactly one row with the
\* empty key and it carries the columns of the last of them; the four statistic
\* tables never hold a row with the empty school number, and the pass of such a
\* record leaves them as they were.
C28_EmptyIdUpsertedWithoutStatistics ==
    /\ [](/\ \A t \in StatTables : RowsOf(db, t, <<>>) = {}
          /\ EmptyIdStored = {} => RowsOf(db, "school_details", <<>>) = {}
          /\ EmptyIdStored # {} =>
                LET last == CHOOSE m \in EmptyIdStored : \A k \in EmptyIdStored : k <= m
                IN  \E r \in db.school_details :
                       /\ RowsOf(db, "school_details", <<>>) = {r}
                       /\ Mutable(r) = Mutable(DetailRow(allDetails[last], 0)))
    /\ [][pc = "store" /\ j <= Len(allDetails) /\ allDetails[j].SchoolNumber = <<>> =>
             \A t \in StatTables : db'[t] = db[t]]_vars

\* Two pages without a school number were harvested in one run, both records were
\* upserted, the second has a table that normalizes to rows, and the one row with
\* the empty key has the name of the second
C28_Witness ==
    /\ pc = "done"
    /\ EmptyIdStored = {1, 2}
    /\ allDetails[1].SchoolName # allDetails[2].SchoolName
    /\ \E t \in StatTables : StatRows(t, allDetails[2], clock) # {}
    /\ \E r \in db.school_details :
          /\ RowsOf(db, "school_details", <<>>) = {r}
          /\ r.school_name = allDetails[2].SchoolName
          /\ r.languages = allDetails[2].Languages

\* C29: in a run with the cache disabled no step changes a cache file, loadFromCache
\* finds no url, and every link the loop processes is scraped live (or fails live)
\* with nothing written; what a scraper with the cache enabled is served from the
\* files is after every step what it was before.
C29_DisabledCacheUntouched ==
    [][~useCache /\ pc \in {"links", "loop", "store"} =>
         (/\ cache' = cache
          /\ \A u \in URLs :
                /\ ~CacheFound(useCache, cache, u)
                /\ CacheFound(TRUE, cache', u) = CacheFound(TRUE, cache, u)
                /\ loadFromCache(cache', u) = loadFromCache(cache, u)
          /\ i' # i =>
                /\ outcomes'[i].kind \in {"scraped", "failed"}
                /\ outcomes'[i].wrote = "none"
                /\ cachedCount' = cachedCount)]_vars

\* A run with the cache disabled is over: it scraped both links live and the
\* record of URL1 it harvested is not the one in the readable file of URL1, which
\* an earlier run wrote
C29_Witness ==
    /\ pc = "done"
    /\ ~useCache
    /\ Len(links) = 2
    /\ scrapedCount = 2 /\ cachedCount = 0
    /\ \A m \in 1..2 : outcomes[m].kind = "scraped" /\ outcomes[m].wrote = "none"
    /\ links[1] = URL1
    /\ CacheFound(TRUE, cache, URL1)
    /\ loadFromCache(cache, URL1) = PriorDetail
    /\ allDetails[1] # PriorDetail

\* C30: in the storing loop a statistic table changes only in a pass whose Upsert
\* returned nil: the pass counts as a success and school_details holds the row of
\* the record, written in this pass.  A pass whose Upsert returned an error leaves
\* the whole store, so the statistic rows of the record's school number in all four
\* tables, as it was, and adds one to the error count and nothing to the success
\* count.
C30_StatisticsOnlyAfterUpsert ==
    [][j' # j =>
         LET detail == allDetails[j]
         IN  /\ (\E t \in StatTables : db'[t] # db[t]) =>
                   /\ ~stored'[j].err
                   /\ successCount' = successCount + 1
                   /\ errorCount' = errorCount
                   /\ \E r \in db'.school_details :
                         /\ r.school_number = detail.SchoolNumber
                         /\ r.updated_at = clock
                         /\ Mutable(r) = Mutable(DetailRow(detail, 0))
             /\ stored'[j].err =>
                   /\ \A t \in StatTables :
                         RowsOf(db', t, detail.SchoolNumber)
                             = RowsOf(db, t, detail.SchoolNumber)
                   /\ db' = db
                   /\ errorCount' = errorCount + 1
                   /\ successCount' = successCount
             /\ stored'[j].err <=> errorCount' # errorCount]_vars

\* The Upsert of a record harvested anew for a school failed while the context was
\* not done: the run counted one error, and the citizenship rows an earlier run
\* stored for the school are still there although the record normalizes to others
C30_Witness ==
    /\ pc = "done"
    /\ expiredIn = "none"
    /\ errorCount = 1
    /\ result = "completed with errors"
    /\ \E m \in 1..Len(stored) :
          LET detail == allDetails[m]
              t == "school_citizenship_stats"
          IN  /\ stored[m].err
              /\ detail.SchoolNumber = PriorDetail.SchoolNumber
              /\ detail.CitizenshipTable # PriorDetail.CitizenshipTable
              /\ StatRows(t, detail, clock) # {}
              /\ RowsOf(db, t, detail.SchoolNumber) = StatRows(t, PriorDetail, 0)
              /\ RowsOf(db, t, detail.SchoolNumber) # {}
====
